---- MODULE Spec2Model ----
(***************************************************************************)
(* Model of the dictation / typing editor:                                 *)
(*   - TypingMode (keydown handling, processTransliterationOnSpace,        *)
(*     replaceLastWord), TextEditor.insertText, Transliteration            *)
(*     (transliterate, callGoogleInputTools, special-character handling)   *)
(*     and DictationApp.switchMode, as one state machine (Spec);           *)
(*   - CommandProcessor (lexicon, process, add/remove) as a second state   *)
(*     machine (CmdSpec).                                                  *)
(* Text is a sequence of one-character strings.  The editor is modelled as *)
(* its flat textContent plus a collapsed caret offset; typingBuffer, the   *)
(* input debounce timer and the listener bookkeeping of TypingMode are not *)
(* part of the state.  Both machines share Init; each leaves the other's   *)
(* variables alone.                                                        *)
(***************************************************************************)
EXTENDS Integers, Sequences, FiniteSets, TLC

\* ------------------------------------------------------------------ bounds

\* Longest editor text at which the user still types or starts a lookup.
MaxLen == 3

\* Most lookups the model lets be outstanding at once.
MaxPending == 2

\* Most spaces put on either side of a phrase handed to process.
MaxPad == 1

\* Longest enumerated text handed to autoCapitalize and cleanSpacing.
MaxText == 4

\* Most segments in a response to a direct call of transliterate.
MaxSegments == 2

\* ------------------------------------------------------- character classes

\* [a-zA-Z] restricted to the letters the model types.
Latin == {"a", "b"}

\* \u0900-\u097F, one representative character.
Devanagari == {"dv"}

\* \u0980-\u09FF, one representative character.
Bengali == {"bg"}

\* \s: the space and one other whitespace character.
Whitespace == {" ", "\n"}

IsLatin(c) == c \in Latin

IsSpace(c) == c \in Whitespace

\* [a-zA-Z\u0980-\u09FF\u0900-\u097F], the class replaceLastWord matches.
IsWordChar(c) == c \in Latin \cup Devanagari \cup Bengali

\* [^a-zA-Z\s\u0900-\u097F\u0980-\u09FF], the class extractSpecialCharacters matches.
IsSpecial(c) == ~IsWordChar(c) /\ ~IsSpace(c)

\* ------------------------------------------------------ string primitives

\* String.prototype.trim
RECURSIVE TrimLeft(_)
TrimLeft(s) ==
    IF s # <<>> /\ IsSpace(Head(s)) THEN TrimLeft(Tail(s)) ELSE s

RECURSIVE TrimRight(_)
TrimRight(s) ==
    IF s # <<>> /\ IsSpace(s[Len(s)]) THEN TrimRight(SubSeq(s, 1, Len(s) - 1)) ELSE s

Trim(s) == TrimRight(TrimLeft(s))

\* String.prototype.split(/\s+/): the pieces between maximal whitespace runs;
\* leading or trailing whitespace yields an empty first or last piece.
RECURSIVE SplitFrom(_, _, _, _)
SplitFrom(s, i, cur, acc) ==
    IF i > Len(s) THEN Append(acc, cur)
    ELSE IF IsSpace(s[i])
         THEN IF i > 1 /\ IsSpace(s[i - 1])
              THEN SplitFrom(s, i + 1, cur, acc)
              ELSE SplitFrom(s, i + 1, <<>>, Append(acc, cur))
         ELSE SplitFrom(s, i + 1, Append(cur, s[i]), acc)

SplitWs(s) == SplitFrom(s, 1, <<>>, <<>>)

\* Array.prototype.filter(w => w): drops the empty strings.
RECURSIVE NonEmpty(_)
NonEmpty(ws) ==
    IF ws = <<>> THEN <<>>
    ELSE IF Head(ws) = <<>> THEN NonEmpty(Tail(ws))
         ELSE <<Head(ws)>> \o NonEmpty(Tail(ws))

\* Array.prototype.join(' ')
RECURSIVE JoinSpace(_)
JoinSpace(ws) ==
    IF ws = <<>> THEN <<>>
    ELSE IF Len(ws) = 1 THEN ws[1]
         ELSE ws[1] \o <<" ">> \o JoinSpace(Tail(ws))

\* Array.prototype.join('')
RECURSIVE Concat(_)
Concat(ws) == IF ws = <<>> THEN <<>> ELSE Head(ws) \o Concat(Tail(ws))

\* /[a-zA-Z]+/.test(s)
HasLatin(s) == \E i \in DOMAIN s : IsLatin(s[i])

\* /^[a-zA-Z]+$/.test(s)
AllLatin(s) == s # <<>> /\ \A i \in DOMAIN s : IsLatin(s[i])

\* --------------------------------------------------------- Transliteration

\* The languages of the typing-language selector the model uses.
Languages == {"en", "hi", "bn"}

\* A languageMap with an entry for one more code.
languageMap_WithFrench == {"hi", "bn", "fr"}

\* languageMap of callGoogleInputTools: the codes that have an engine locale.
languageMap == {"hi", "bn"}

\* The languages transliterate returns as-is without looking at languageMap.
PassThroughLanguages == {"en", "de", "es"}

\* text.substring(0, index).trim().split(/\s+/).filter(w => w).length
WordsBefore(text, index) ==
    Len(NonEmpty(SplitWs(Trim(SubSeq(text, 1, index)))))

\* extractSpecialCharacters: every special character with its 0-based
\* position and the number of words before it, in text order.
RECURSIVE ExtractFrom(_, _)
ExtractFrom(text, i) ==
    IF i > Len(text) THEN <<>>
    ELSE IF IsSpecial(text[i])
         THEN <<[char |-> text[i], position |-> i - 1,
                 wordPosition |-> WordsBefore(text, i - 1)]>>
              \o ExtractFrom(text, i + 1)
         ELSE ExtractFrom(text, i + 1)

extractSpecialCharacters(text) == ExtractFrom(text, 1)

\* A round of the loop that puts nothing back.
ReinsertOne_Drop(result, special, nWords) == result

\* One round of the loop of reinsertSpecialCharacters.
ReinsertOne(result, special, nWords) ==
    IF special.wordPosition < nWords
    THEN LET words == NonEmpty(SplitWs(result))
             wordIndex == special.wordPosition + 1
         IN IF wordIndex <= Len(words)
            THEN JoinSpace([words EXCEPT ![wordIndex] = @ \o <<special.char>>])
            ELSE result
    ELSE result \o <<special.char>>

\* The loop over specialChars.reverse(): from the last element to the first.
RECURSIVE ReinsertLoop(_, _, _, _)
ReinsertLoop(result, specialChars, k, nWords) ==
    IF k = 0 THEN result
    ELSE ReinsertLoop(ReinsertOne(result, specialChars[k], nWords),
                      specialChars, k - 1, nWords)

reinsertSpecialCharacters(transliterated, specialChars) ==
    IF Len(specialChars) = 0 THEN transliterated
    ELSE ReinsertLoop(transliterated, specialChars, Len(specialChars),
                      Len(NonEmpty(SplitWs(transliterated))))

\* What the fetch of callGoogleInputTools can come back with:
\*   "throw"     fetch rejects, or response.json() throws
\*   "notok"     response.ok is false
\*   "malformed" data or data[1] is missing or no array
\*   "ok"        data[1] is an array; segments[i] is segment[1][0], and <<>>
\*               stands for a segment without a usable first candidate.
ResponseKinds == {"throw", "notok", "malformed", "ok"}

\* callGoogleInputTools that gives the empty string when the response holds
\* no usable candidate.
callGoogleInputTools_EmptyOnFailure(text, languageCode, response) ==
    IF languageCode \notin languageMap THEN text
    ELSE IF response.kind # "ok" THEN <<>>
    ELSE LET segments == NonEmpty(response.segments)
         IN IF Len(segments) > 0
            THEN reinsertSpecialCharacters(Concat(segments),
                                           extractSpecialCharacters(text))
            ELSE <<>>

\* callGoogleInputTools after the fetch has settled with `response`.
callGoogleInputTools(text, languageCode, response) ==
    IF languageCode \notin languageMap THEN text
    ELSE IF response.kind # "ok" THEN text
    ELSE LET segments == NonEmpty(response.segments)
         IN IF Len(segments) > 0
            THEN reinsertSpecialCharacters(Concat(segments),
                                           extractSpecialCharacters(text))
            ELSE text

\* Whether transliterate(text, languageCode) issues a fetch.
IssuesLookup(text, languageCode) ==
    /\ text # <<>>
    /\ Trim(text) # <<>>
    /\ languageCode \notin PassThroughLanguages
    /\ languageCode \in languageMap

\* transliterate: the string its promise resolves with.
transliterate(text, languageCode, response) ==
    IF text = <<>> \/ Trim(text) = <<>> THEN text
    ELSE IF languageCode \in PassThroughLanguages THEN text
    ELSE callGoogleInputTools(text, languageCode, response)

\* callGoogleInputTools of js/transliteration.js after the fetch has settled:
\* data[1][0][1][0] when it is there, else the text.
callGoogleInputToolsJs(text, languageCode, response) ==
    IF languageCode \notin languageMap THEN text
    ELSE IF response.kind # "ok" THEN text
    ELSE IF response.segments # <<>> /\ response.segments[1] # <<>>
    THEN response.segments[1]
    ELSE text

\* transliterate of js/transliteration.js: the string its promise resolves
\* with.
transliterateJs(text, languageCode, response) ==
    IF text = <<>> \/ Trim(text) = <<>> THEN text
    ELSE IF languageCode \in PassThroughLanguages THEN text
    ELSE callGoogleInputToolsJs(text, languageCode, response)

\* String.prototype.split(/(\s+)/): the pieces between maximal whitespace
\* runs and, because of the capture group, the runs themselves between them:
\* pieces and runs alternate, the first and the last element are pieces
\* (empty when the string starts or ends with whitespace).
RECURSIVE SplitCaptureFrom(_, _, _, _)
SplitCaptureFrom(s, i, cur, acc) ==
    LET inRun == cur # <<>> /\ IsSpace(cur[1])
    IN IF i > Len(s)
       THEN IF inRun THEN acc \o <<cur, <<>>>> ELSE Append(acc, cur)
       ELSE IF IsSpace(s[i]) = inRun
            THEN SplitCaptureFrom(s, i + 1, Append(cur, s[i]), acc)
            ELSE SplitCaptureFrom(s, i + 1, <<s[i]>>, Append(acc, cur))

SplitCapture(s) == SplitCaptureFrom(s, 1, <<>>, <<>>)

\* /[a-zA-Z]$/.test(s)
EndsInLatin(s) == s # <<>> /\ IsLatin(s[Len(s)])

\* transliterateWord: the object its promise resolves with, and the number of
\* lookups it issued; `file` names the class whose transliterate it calls,
\* `response` is what the engine answers if it is asked.
transliterateWord(file, text, languageCode, response) ==
    LET unchanged == [text |-> text, transliterated |-> FALSE, requests |-> 0]
        words == SplitCapture(text)
        n == Len(words)
    IN IF languageCode \in PassThroughLanguages THEN unchanged
       ELSE IF EndsInLatin(words[n]) THEN unchanged
       ELSE IF n >= 2 /\ HasLatin(words[n - 1])
            THEN LET wordToTransliterate == words[n - 1]
                     transliterated ==
                         IF file = "js/transliteration.js"
                         THEN transliterateJs(wordToTransliterate, languageCode, response)
                         ELSE transliterate(wordToTransliterate, languageCode, response)
                 IN [text |-> Concat([words EXCEPT ![n - 1] = transliterated]),
                     transliterated |-> TRUE,
                     requests |-> IF IssuesLookup(wordToTransliterate, languageCode)
                                  THEN 1 ELSE 0]
            ELSE unchanged

\* The remote engine (external): Latin letters become letters of the target
\* script, target-script letters and whitespace are kept, anything else is
\* dropped.
ScriptChar(languageCode) == IF languageCode = "hi" THEN "dv" ELSE "bg"

RECURSIVE EngineCandidate(_, _)
EngineCandidate(text, languageCode) ==
    IF text = <<>> THEN <<>>
    ELSE LET c == Head(text)
             rest == EngineCandidate(Tail(text), languageCode)
         IN IF IsLatin(c) THEN <<ScriptChar(languageCode)>> \o rest
            ELSE IF IsSpecial(c) THEN rest
            ELSE <<c>> \o rest

\* A response without any usable candidate: transliterate passes the text
\* through.
IsFailure(response) ==
    response.kind # "ok" \/ NonEmpty(response.segments) = <<>>

\* The responses the model lets the engine give to a request.
Responses(text, languageCode) ==
    { [kind |-> k, segments |-> <<>>] : k \in {"throw", "notok", "malformed"} }
    \cup { [kind |-> "ok", segments |-> <<>>],
           [kind |-> "ok", segments |-> <<EngineCandidate(text, languageCode)>>] }

\* -------------------------------------------------------- CommandProcessor

\* The letters String.prototype.toLowerCase and toUpperCase map.
LowerCase == <<"a", "b", "c", "d", "e", "f", "g", "h", "i", "j", "k", "l", "m", "n", "o", "p", "q", "r", "s", "t", "u", "v", "w", "x", "y", "z">>

UpperCase == <<"A", "B", "C", "D", "E", "F", "G", "H", "I", "J", "K", "L", "M", "N", "O", "P", "Q", "R", "S", "T", "U", "V", "W", "X", "Y", "Z">>

toLowerCaseChar(c) ==
    IF \E i \in DOMAIN UpperCase : UpperCase[i] = c
    THEN LowerCase[CHOOSE i \in DOMAIN UpperCase : UpperCase[i] = c]
    ELSE c

toUpperCaseChar(c) ==
    IF \E i \in DOMAIN LowerCase : LowerCase[i] = c
    THEN UpperCase[CHOOSE i \in DOMAIN LowerCase : LowerCase[i] = c]
    ELSE c

\* String.prototype.toLowerCase
RECURSIVE toLowerCase(_)
toLowerCase(s) ==
    IF s = <<>> THEN <<>> ELSE <<toLowerCaseChar(Head(s))>> \o toLowerCase(Tail(s))

\* String.prototype.toUpperCase
RECURSIVE toUpperCase(_)
toUpperCase(s) ==
    IF s = <<>> THEN <<>> ELSE <<toUpperCaseChar(Head(s))>> \o toUpperCase(Tail(s))

\* String.prototype.includes
Includes(s, sub) ==
    \E i \in 0..(Len(s) - Len(sub)) : SubSeq(s, i + 1, i + Len(sub)) = sub

\* CommandProcessor.initializeCommands.  A category is the sequence of its
\* entries in insertion order, the order Object.entries walks them in.
initializeCommands ==
    [punctuation |-> <<
        [key |-> <<"c", "o", "m", "m", "a">>, value |-> <<",">>],
        [key |-> <<"p", "e", "r", "i", "o", "d">>, value |-> <<".">>],
        [key |-> <<"f", "u", "l", "l", " ", "s", "t", "o", "p">>, value |-> <<".">>],
        [key |-> <<"q", "u", "e", "s", "t", "i", "o", "n", " ", "m", "a", "r", "k">>, value |-> <<"?">>],
        [key |-> <<"e", "x", "c", "l", "a", "m", "a", "t", "i", "o", "n", " ", "m", "a", "r", "k">>, value |-> <<"!">>],
        [key |-> <<"e", "x", "c", "l", "a", "m", "a", "t", "i", "o", "n", " ", "p", "o", "i", "n", "t">>, value |-> <<"!">>],
        [key |-> <<"c", "o", "l", "o", "n">>, value |-> <<":">>],
        [key |-> <<"s", "e", "m", "i", "c", "o", "l", "o", "n">>, value |-> <<";">>],
        [key |-> <<"d", "a", "s", "h">>, value |-> <<"-">>],
        [key |-> <<"h", "y", "p", "h", "e", "n">>, value |-> <<"-">>],
        [key |-> <<"q", "u", "o", "t", "e">>, value |-> <<"\"">>],
        [key |-> <<"a", "p", "o", "s", "t", "r", "o", "p", "h", "e">>, value |-> <<"'">>],
        [key |-> <<"o", "p", "e", "n", " ", "p", "a", "r", "e", "n", "t", "h", "e", "s", "i", "s">>, value |-> <<"(">>],
        [key |-> <<"c", "l", "o", "s", "e", " ", "p", "a", "r", "e", "n", "t", "h", "e", "s", "i", "s">>, value |-> <<")">>],
        [key |-> <<"o", "p", "e", "n", " ", "b", "r", "a", "c", "k", "e", "t">>, value |-> <<"[">>],
        [key |-> <<"c", "l", "o", "s", "e", " ", "b", "r", "a", "c", "k", "e", "t">>, value |-> <<"]">>] >>,
     navigation |-> <<
        [key |-> <<"n", "e", "w", " ", "l", "i", "n", "e">>, value |-> "NEW_LINE"],
        [key |-> <<"e", "n", "t", "e", "r">>, value |-> "NEW_LINE"],
        [key |-> <<"n", "e", "w", " ", "p", "a", "r", "a", "g", "r", "a", "p", "h">>, value |-> "NEW_PARAGRAPH"],
        [key |-> <<"p", "a", "r", "a", "g", "r", "a", "p", "h">>, value |-> "NEW_PARAGRAPH"] >>,
     editing |-> <<
        [key |-> <<"d", "e", "l", "e", "t", "e", " ", "t", "h", "a", "t">>, value |-> "DELETE_SENTENCE"],
        [key |-> <<"d", "e", "l", "e", "t", "e", " ", "s", "e", "n", "t", "e", "n", "c", "e">>, value |-> "DELETE_SENTENCE"],
        [key |-> <<"u", "n", "d", "o">>, value |-> "UNDO"],
        [key |-> <<"r", "e", "d", "o">>, value |-> "REDO"] >>,
     formatting |-> <<
        [key |-> <<"b", "o", "l", "d">>, value |-> "BOLD"],
        [key |-> <<"i", "t", "a", "l", "i", "c">>, value |-> "ITALIC"],
        [key |-> <<"u", "n", "d", "e", "r", "l", "i", "n", "e">>, value |-> "UNDERLINE"] >>]

\* The value of a field a result object does not have.
Undefined == "undefined"

\* The least index of a non-empty set of indices: the first entry the loop
\* of process meets.
FirstIndex(S) == CHOOSE i \in S : \A j \in S : i <= j

\* A punctuation test that also accepts a trigger inside the text.
PunctuationHit_Substring(lowerText, key) ==
    lowerText = key \/ Includes(lowerText, key)

\* A punctuation test that never matches.
PunctuationHit_Never(lowerText, key) == FALSE

\* The test of the punctuation loop: lowerText === key
PunctuationHit(lowerText, key) == lowerText = key

\* A navigation / editing test that wants the whole text to be the trigger.
SubstringHit_Exact(lowerText, key) == lowerText = key

\* The test of the navigation and editing loops:
\* lowerText === key || lowerText.includes(key)
SubstringHit(lowerText, key) == lowerText = key \/ Includes(lowerText, key)

\* A plain-text result that carries the normalized text.
processedText_Lower(text, lowerText) == lowerText

\* let processedText = text: what a plain-text result carries.
processedText(text, lowerText) == text

\* CommandProcessor.process
process(cmds, text) ==
    IF text = <<>>
    THEN [text |-> <<>>, hasCommand |-> FALSE, commandType |-> Undefined,
          command |-> Undefined, originalCommand |-> Undefined]
    ELSE LET lowerText == Trim(toLowerCase(text))
             p == {i \in DOMAIN cmds.punctuation :
                     PunctuationHit(lowerText, cmds.punctuation[i].key)}
             n == {i \in DOMAIN cmds.navigation :
                     SubstringHit(lowerText, cmds.navigation[i].key)}
             e == {i \in DOMAIN cmds.editing :
                     SubstringHit(lowerText, cmds.editing[i].key)}
         IN IF p # {}
            THEN [text |-> cmds.punctuation[FirstIndex(p)].value,
                  hasCommand |-> TRUE, commandType |-> "PUNCTUATION",
                  command |-> Undefined,
                  originalCommand |-> cmds.punctuation[FirstIndex(p)].key]
            ELSE IF n # {}
            THEN [text |-> <<>>, hasCommand |-> TRUE, commandType |-> "NAVIGATION",
                  command |-> cmds.navigation[FirstIndex(n)].value,
                  originalCommand |-> cmds.navigation[FirstIndex(n)].key]
            ELSE IF e # {}
            THEN [text |-> <<>>, hasCommand |-> TRUE, commandType |-> "EDITING",
                  command |-> cmds.editing[FirstIndex(e)].value,
                  originalCommand |-> cmds.editing[FirstIndex(e)].key]
            ELSE [text |-> processedText(text, lowerText), hasCommand |-> FALSE,
                  commandType |-> Undefined,
                  command |-> Undefined, originalCommand |-> Undefined]

\* obj[key] = value on a category: an existing key keeps its place and takes
\* the new value, a new key goes to the end.
RECURSIVE PutEntry(_, _, _)
PutEntry(entries, key, value) ==
    IF entries = <<>> THEN << [key |-> key, value |-> value] >>
    ELSE IF Head(entries).key = key
         THEN << [key |-> key, value |-> value] >> \o Tail(entries)
         ELSE << Head(entries) >> \o PutEntry(Tail(entries), key, value)

\* delete obj[key] on a category.
DeleteEntry(entries, key) == SelectSeq(entries, LAMBDA en : en.key # key)

\* CommandProcessor.addCustomCommand
addCustomCommand(cmds, commandType, trigger, action) ==
    IF commandType \in DOMAIN cmds
    THEN [cmds EXCEPT ![commandType] = PutEntry(@, toLowerCase(trigger), action)]
    ELSE cmds

\* removeCustomCommand without the lower-casing of the trigger.
removeCustomCommand_NoLower(cmds, commandType, trigger) ==
    IF commandType \in DOMAIN cmds
    THEN [cmds EXCEPT ![commandType] = DeleteEntry(@, trigger)]
    ELSE cmds

\* CommandProcessor.removeCustomCommand
removeCustomCommand(cmds, commandType, trigger) ==
    IF commandType \in DOMAIN cmds
    THEN [cmds EXCEPT ![commandType] = DeleteEntry(@, toLowerCase(trigger))]
    ELSE cmds

\* ------------------------------------------------- editor and typing state

VARIABLES
    textContent,        \* TextEditor.editor.textContent
    caret,              \* the collapsed selection, an offset into textContent
    currentMode,        \* DictationApp.currentMode
    isActive,           \* TypingMode.isActive (the keydown listener is attached)
    currentLanguage,    \* TypingMode.currentLanguage
    translitLanguage,   \* Transliteration.currentLanguage
    isTransliterating,  \* Transliteration.isTransliterating
    pending,            \* the suspended processTransliterationOnSpace calls
    settled,            \* history: what the last step did, if it resumed a call
    commands,           \* CommandProcessor.commands
    utterance,          \* the argument of the last call of process
    result,             \* what that call returned
    processed,          \* process has been called since the lexicon last changed
    call,               \* the last direct call of a text function: name, arguments
    returned,           \* what that call returned
    supported,          \* SpeechRecognition.isSupported()
    handlersAttached,   \* DictationApp.setupEventHandlers has run
    recognition,        \* the browser's recognizer: idle, starting, running, ending
    recognizerListening, \* SpeechRecognition.isListening
    isListening,        \* DictationApp.isListening
    restartTimers,      \* the pending setTimeout callbacks of SpeechRecognition.setLanguage
    startEnabled,       \* the Start button is enabled
    did,                \* history: the calls the last handler of the app made
    listeningOnEntry,   \* history: Type mode was entered while isListening
    keydownListeners,   \* the typing keydown listeners registered on the editor
    inputListeners,     \* the typing input listeners registered on the editor
    handleKeyDown,      \* TypingMode.handleKeyDown: the bound function, 0 if unset
    handleInput,        \* TypingMode.handleInput: the bound function, 0 if unset
    typingBuffer,       \* TypingMode.typingBuffer
    inputTimeout,       \* the debounce timer of onInput is pending
    inputSinceClear,    \* history: an input event came since typingBuffer was last cleared
    isMac,              \* navigator.platform names a Mac
    formatting          \* the bold, italic and underline states of the editor

typingVars == <<textContent, caret, currentMode, isActive, currentLanguage,
                translitLanguage, isTransliterating, pending, settled>>

cmdVars == <<commands, utterance, result, processed>>

fnVars == <<call, returned>>

speechVars == <<supported, handlersAttached, recognition, recognizerListening,
                isListening, restartTimers, startEnabled, did, listeningOnEntry>>

listenerVars == <<keydownListeners, inputListeners, handleKeyDown, handleInput,
                  typingBuffer, inputTimeout, inputSinceClear>>

formatVars == <<isMac, formatting>>

vars == <<typingVars, cmdVars, fnVars, speechVars, listenerVars, formatVars>>

\* The keys of the condition of onKeyDown.
TriggerKeys == {" ", ".", ",", "!", "?"}

\* The languages onKeyDown transliterates for.
TranslitLanguages == {"hi", "bn"}

\* The keys the model's user presses: the letters, the space and one of the
\* punctuation trigger keys.
Keys == Latin \cup {" ", "."}

Last(ws) == ws[Len(ws)]

\* TextEditor.insertText with a selection present: the text goes in at the
\* caret and the caret moves behind it.
insertText(t, c, s) ==
    IF s = <<>> THEN [text |-> t, caret |-> c]
    ELSE [text |-> SubSeq(t, 1, c) \o s \o SubSeq(t, c + 1, Len(t)),
          caret |-> c + Len(s)]

\* The length of the match of /([a-zA-Z\u0980-\u09FF\u0900-\u097F]+)$/ on the
\* text before the caret (0: no match).
RECURSIVE TrailingWordLen(_, _)
TrailingWordLen(t, c) ==
    IF c > 0 /\ IsWordChar(t[c]) THEN 1 + TrailingWordLen(t, c - 1) ELSE 0

\* replaceLastWord with the word start one character late: the first letter
\* of the word survives the replacement.
replaceLastWord_OffByOne(t, c, newWord) ==
    LET n == TrailingWordLen(t, c)
        wordStart == c - n + 1
    IN IF n = 0 THEN [text |-> t, caret |-> c]
       ELSE [text |-> SubSeq(t, 1, wordStart) \o newWord \o SubSeq(t, c + 1, Len(t)),
             caret |-> wordStart + Len(newWord)]

\* TypingMode.replaceLastWord: the run of word characters that ends at the
\* caret is replaced by newWord and the caret is put behind it.
replaceLastWord(t, c, newWord) ==
    LET n == TrailingWordLen(t, c)
        wordStart == c - n
    IN IF n = 0 THEN [text |-> t, caret |-> c]
       ELSE [text |-> SubSeq(t, 1, wordStart) \o newWord \o SubSeq(t, c + 1, Len(t)),
             caret |-> wordStart + Len(newWord)]

\* The word processTransliterationOnSpace sends to the lookup:
\* text.trim().split(/\s+/), last element.
LastWordOf(t) == Last(SplitWs(Trim(t)))

\* The test of processTransliterationOnSpace for "a valid word".
IsValidWord(w) == w # <<>> /\ Trim(w) # <<>> /\ HasLatin(w)

\* AfterAwait without the comparison with the word sent: whatever comes back
\* is written over the run at the caret.
AfterAwait_AlwaysReplace(t, c, lastWord, transliterated) ==
    LET r == IF transliterated # <<>>
             THEN replaceLastWord(t, c, transliterated)
             ELSE [text |-> t, caret |-> c]
    IN insertText(r.text, r.caret, <<" ">>)

\* The part of processTransliterationOnSpace after the await: the result
\* replaces the last word if it is non-empty and differs from the word sent,
\* then a space is inserted.
AfterAwait(t, c, lastWord, transliterated) ==
    LET r == IF transliterated # <<>> /\ transliterated # lastWord
             THEN replaceLastWord(t, c, transliterated)
             ELSE [text |-> t, caret |-> c]
    IN insertText(r.text, r.caret, <<" ">>)

RemoveAt(q, i) == SubSeq(q, 1, i - 1) \o SubSeq(q, i + 1, Len(q))

\* The value of `result` while no call of process has returned.
NoResult ==
    [text |-> <<>>, hasCommand |-> FALSE, commandType |-> Undefined,
     command |-> Undefined, originalCommand |-> Undefined]

\* DictationApp.constructor: TextEditor, Transliteration and TypingMode as
\* constructed.
InitTyping ==
    /\ textContent = <<>>
    /\ caret = 0
    /\ currentMode = "dictate"
    /\ isActive = FALSE
    /\ currentLanguage = "en"
    /\ translitLanguage = "en"
    /\ isTransliterating = FALSE
    /\ pending = <<>>
    /\ settled = "none"

\* CommandProcessor.constructor
InitCommands ==
    /\ commands = initializeCommands
    /\ utterance = <<>>
    /\ result = NoResult
    /\ processed = FALSE

\* DictationApp.init and the SpeechRecognition constructor: without the Web
\* Speech API init shows an error, disables the Start button and returns
\* before setupEventHandlers; with it the handlers and callbacks are set.
InitSpeech(isSupported) ==
    /\ supported = isSupported
    /\ handlersAttached = isSupported
    /\ recognition = "idle"
    /\ recognizerListening = FALSE
    /\ isListening = FALSE
    /\ restartTimers = 0
    /\ startEnabled = isSupported
    /\ did = IF isSupported THEN <<"updateStatus:ready">>
                             ELSE <<"showNotification:error">>
    /\ listeningOnEntry = FALSE

\* TypingMode.constructor: no listener is registered, the buffer is empty.
InitListeners ==
    /\ keydownListeners = {}
    /\ inputListeners = {}
    /\ handleKeyDown = 0
    /\ handleInput = 0
    /\ typingBuffer = <<>>
    /\ inputTimeout = FALSE
    /\ inputSinceClear = FALSE

\* TextEditor.constructor on an empty editor: no formatting is on.
InitFormat(mac) ==
    /\ isMac = mac
    /\ formatting = [bold |-> FALSE, italic |-> FALSE, underline |-> FALSE]

Init ==
    /\ InitTyping
    /\ InitCommands
    /\ InitSpeech(TRUE)
    /\ InitListeners
    /\ InitFormat(FALSE)
    /\ call = [fn |-> "none", phase |-> "none"]
    /\ returned = <<>>

\* A key whose default action the handlers do not prevent: the browser
\* inserts the character at the caret.
KeyDownDefault(k) ==
    /\ ~(isActive /\ k \in TriggerKeys /\ currentLanguage \in TranslitLanguages)
    /\ Len(textContent) + Len(pending) < MaxLen
    /\ LET r == insertText(textContent, caret, <<k>>)
       IN /\ textContent' = r.text
          /\ caret' = r.caret
    /\ settled' = "none"
    /\ UNCHANGED <<currentMode, isActive, currentLanguage, translitLanguage,
                   isTransliterating, pending>>
    /\ UNCHANGED <<cmdVars, fnVars, speechVars, listenerVars, formatVars>>

\* onKeyDown, trigger key, transliterating language, no valid last word:
\* processTransliterationOnSpace inserts a space and returns.
KeyDownNoWord(k) ==
    /\ isActive /\ k \in TriggerKeys /\ currentLanguage \in TranslitLanguages
    /\ ~IsValidWord(LastWordOf(textContent))
    /\ Len(textContent) + Len(pending) < MaxLen
    /\ LET r == insertText(textContent, caret, <<" ">>)
       IN /\ textContent' = r.text
          /\ caret' = r.caret
    /\ settled' = "none"
    /\ UNCHANGED <<currentMode, isActive, currentLanguage, translitLanguage,
                   isTransliterating, pending>>
    /\ UNCHANGED <<cmdVars, fnVars, speechVars, listenerVars, formatVars>>

\* onKeyDown, trigger key, transliterating language, valid last word: the
\* default is prevented, transliterate issues the fetch and the call suspends.
KeyDownLookup(k) ==
    /\ isActive /\ k \in TriggerKeys /\ currentLanguage \in TranslitLanguages
    /\ IsValidWord(LastWordOf(textContent))
    /\ IssuesLookup(LastWordOf(textContent), currentLanguage)
    /\ Len(textContent) + Len(pending) < MaxLen
    /\ Len(pending) < MaxPending
    /\ pending' = Append(pending,
                         [key |-> k,
                          lastWord |-> LastWordOf(textContent),
                          languageCode |-> currentLanguage,
                          phase |-> "fetching"])
    /\ isTransliterating' = TRUE
    /\ settled' = "none"
    /\ UNCHANGED <<textContent, caret, currentMode, isActive, currentLanguage,
                   translitLanguage>>
    /\ UNCHANGED <<cmdVars, fnVars, speechVars, listenerVars, formatVars>>

\* The fetch of call i settles: the engine has answered or the transport has
\* failed.  What came back is read when the call resumes.
Respond(i) ==
    /\ i \in DOMAIN pending
    /\ pending[i].phase = "fetching"
    /\ pending' = [pending EXCEPT ![i].phase = "resolved"]
    /\ settled' = "none"
    /\ UNCHANGED <<textContent, caret, currentMode, isActive, currentLanguage,
                   translitLanguage, isTransliterating>>
    /\ UNCHANGED <<cmdVars, fnVars, speechVars, listenerVars, formatVars>>

\* Call i resumes after its await with `response`: transliterate clears
\* isTransliterating and returns, processTransliterationOnSpace commits.
Settle(i, response) ==
    /\ i \in DOMAIN pending
    /\ pending[i].phase = "resolved"
    /\ response \in Responses(pending[i].lastWord, pending[i].languageCode)
    /\ LET r == pending[i]
           out == transliterate(r.lastWord, r.languageCode, response)
           a == AfterAwait(textContent, caret, r.lastWord, out)
       IN /\ textContent' = a.text
          /\ caret' = a.caret
          /\ settled' = IF IsFailure(response) THEN "failed"
                        ELSE IF a.text = insertText(textContent, caret, <<" ">>).text
                             THEN "kept"
                        ELSE "replaced"
    /\ isTransliterating' = FALSE
    /\ pending' = RemoveAt(pending, i)
    /\ UNCHANGED <<currentMode, isActive, currentLanguage, translitLanguage>>
    /\ UNCHANGED <<cmdVars, fnVars, speechVars, listenerVars, formatVars>>

\* The user puts the caret somewhere else.
MoveCaret(p) ==
    /\ p \in 0..Len(textContent)
    /\ p # caret
    /\ caret' = p
    /\ settled' = "none"
    /\ UNCHANGED <<textContent, currentMode, isActive, currentLanguage,
                   translitLanguage, isTransliterating, pending>>
    /\ UNCHANGED <<cmdVars, fnVars, speechVars, listenerVars, formatVars>>

\* The guard of TypingMode.enable.
AlreadyActive_Never(active) == FALSE

AlreadyActive(active) == active

\* A function object no registered listener is: what bind returns.
Bound(listeners) == CHOOSE n \in 1..(Cardinality(listeners) + 1) : n \notin listeners

\* The guard of SpeechRecognition.stop behind the guard of stopDictation:
\* recognition.stop() is called.
CallsStop == isListening /\ recognizerListening

\* recognition.stop(): a running recognizer ends, the end event follows.
Stopped(state) == IF state = "running" THEN "ending" ELSE state

\* DictationApp.switchMode('type'), from the mode selector: stopDictation if
\* isListening; TypingMode.enable, which returns at once when already active
\* and else clears the buffer, binds and registers the two listeners and
\* focuses the editor (TextEditor.focus puts the caret at the end); the Start
\* button is disabled.
SwitchToType ==
    /\ handlersAttached
    /\ currentMode' = "type"
    /\ recognition' = IF CallsStop THEN Stopped(recognition) ELSE recognition
    /\ listeningOnEntry' = (isListening \/ (currentMode = "type" /\ listeningOnEntry))
    /\ IF AlreadyActive(isActive)
       THEN UNCHANGED <<isActive, caret, keydownListeners, inputListeners,
                        handleKeyDown, handleInput, typingBuffer, inputSinceClear>>
       ELSE /\ isActive' = TRUE
            /\ typingBuffer' = <<>>
            /\ inputSinceClear' = FALSE
            /\ handleKeyDown' = Bound(keydownListeners)
            /\ handleInput' = Bound(inputListeners)
            /\ keydownListeners' = keydownListeners \cup {Bound(keydownListeners)}
            /\ inputListeners' = inputListeners \cup {Bound(inputListeners)}
            /\ caret' = Len(textContent)
    /\ startEnabled' = FALSE
    /\ did' = (IF CallsStop THEN <<"recognition.stop">> ELSE <<>>)
                \o <<"updateStatus:ready", "showNotification:info">>
    /\ settled' = "none"
    /\ UNCHANGED <<textContent, currentLanguage, translitLanguage,
                   isTransliterating, pending, inputTimeout>>
    /\ UNCHANGED <<supported, handlersAttached, recognizerListening, isListening,
                   restartTimers>>
    /\ UNCHANGED <<cmdVars, fnVars, formatVars>>

\* The guard of TypingMode.disable.
Inactive_Always(active) == TRUE

Inactive(active) == ~active

\* DictationApp.switchMode('dictate'): TypingMode.disable, which returns at
\* once when inactive and else removes the two listeners it holds and clears
\* the buffer; the Start button is enabled.
SwitchToDictate ==
    /\ handlersAttached
    /\ currentMode' = "dictate"
    /\ listeningOnEntry' = FALSE
    /\ IF Inactive(isActive)
       THEN UNCHANGED <<isActive, keydownListeners, inputListeners,
                        typingBuffer, inputSinceClear>>
       ELSE /\ isActive' = FALSE
            /\ keydownListeners' = keydownListeners \ {handleKeyDown}
            /\ inputListeners' = inputListeners \ {handleInput}
            /\ typingBuffer' = <<>>
            /\ inputSinceClear' = FALSE
    /\ startEnabled' = TRUE
    /\ did' = <<"updateStatus:ready", "showNotification:info">>
    /\ settled' = "none"
    /\ UNCHANGED <<textContent, caret, currentLanguage, translitLanguage,
                   isTransliterating, pending, handleKeyDown, handleInput,
                   inputTimeout>>
    /\ UNCHANGED <<supported, handlersAttached, recognition, recognizerListening,
                   isListening, restartTimers>>
    /\ UNCHANGED <<cmdVars, fnVars, formatVars>>

\* TypingMode.setLanguage, from the typing-language selector, which
\* switchMode shows in Type mode and hides in Dictate mode: the language of
\* TypingMode and of Transliteration, and an empty buffer.
setLanguage(languageCode) ==
    /\ handlersAttached
    /\ currentMode = "type"
    /\ languageCode \in Languages
    /\ currentLanguage' = languageCode
    /\ translitLanguage' = languageCode
    /\ typingBuffer' = <<>>
    /\ inputSinceClear' = FALSE
    /\ settled' = "none"
    /\ UNCHANGED <<textContent, caret, currentMode, isActive,
                   isTransliterating, pending>>
    /\ UNCHANGED <<keydownListeners, inputListeners, handleKeyDown, handleInput,
                   inputTimeout>>
    /\ UNCHANGED <<cmdVars, fnVars, speechVars, formatVars>>

\* Some outstanding fetch settles.
RespondSome == \E i \in DOMAIN pending : Respond(i)

\* Some call whose fetch has settled resumes.
SettleSome ==
    \E i \in DOMAIN pending :
      \E response \in Responses(pending[i].lastWord, pending[i].languageCode) :
         Settle(i, response)

Next ==
    \/ \E k \in Keys : KeyDownDefault(k)
    \/ \E k \in Keys : KeyDownNoWord(k)
    \/ \E k \in Keys : KeyDownLookup(k)
    \/ RespondSome
    \/ SettleSome
    \/ \E p \in 0..Len(textContent) : MoveCaret(p)
    \/ SwitchToType
    \/ SwitchToDictate
    \/ \E l \in Languages : setLanguage(l)

Spec == Init /\ [][Next]_vars

\* The event loop resumes a call once its fetch has settled; nothing makes
\* the remote engine answer.
FairSpec == Init /\ [][Next]_vars /\ WF_vars(SettleSome)

\* ----------------------------------------------- CommandProcessor, as used

RECURSIVE Spaces(_)
Spaces(n) == IF n = 0 THEN <<>> ELSE <<" ">> \o Spaces(n - 1)

\* The phrase with its first letter in upper case.
Capitalize(s) ==
    IF s = <<>> THEN s ELSE <<toUpperCaseChar(Head(s))>> \o Tail(s)

\* The ways a phrase is spoken or typed: as it is, in capitals, capitalized.
CaseVariants(s) == {s, toUpperCase(s), Capitalize(s)}

\* The case variants of a phrase with up to MaxPad spaces on either side.
Variants(s) ==
    { Spaces(l) \o v \o Spaces(r) :
        v \in CaseVariants(s), l \in 0..MaxPad, r \in 0..MaxPad }

\* The keys of a category.
KeysOf(entries) == { entries[i].key : i \in DOMAIN entries }

\* Every trigger of the lexicon.
Triggers(cmds) ==
    KeysOf(cmds.punctuation) \cup KeysOf(cmds.navigation)
      \cup KeysOf(cmds.editing) \cup KeysOf(cmds.formatting)

\* A shipped punctuation trigger inside a sentence: "I said " + T.
Said(s) == <<"I", " ", "s", "a", "i", "d", " ">> \o s

\* A trigger in the middle of a sentence: "please " + T + " now".
PleaseNow(s) == <<"p", "l", "e", "a", "s", "e", " ">> \o s \o <<" ", "n", "o", "w">>

\* An editing trigger followed by a navigation trigger.
EditThenNav(e, n) == e \o <<" ">> \o n

\* The texts handed to process: the triggers and two texts that are no
\* trigger, in all their variants, and the triggers inside longer texts.
Utterances(cmds) ==
    UNION { Variants(s) : s \in Triggers(cmds) \cup {<<>>, <<"h", "e", "l", "l", "o">>} }
      \cup { Said(s) : s \in KeysOf(cmds.punctuation) }
      \cup { PleaseNow(s) : s \in KeysOf(cmds.navigation) \cup KeysOf(cmds.editing) }
      \cup { EditThenNav(e, n) : e \in KeysOf(cmds.editing),
                                 n \in KeysOf(cmds.navigation) }

\* The calls of addCustomCommand: <<commandType, trigger, action>>.
AddInputs ==
    { <<"punctuation", <<"D", "o", "t">>, <<".">> >>,
      <<"punctuation", <<" ", "d", "o", "t">>, <<".">> >>,
      <<"punctuation", <<"c", "o", "m", "m", "a">>, <<";">> >>,
      <<"navigation", <<"M", "a", "r", "k">>, "NEW_PARAGRAPH">>,
      <<"shortcut", <<"d", "o", "t">>, <<".">> >> }

\* The calls of removeCustomCommand: <<commandType, trigger>>.
RemoveInputs ==
    {"punctuation", "navigation", "shortcut"}
      \X { <<"D", "O", "T">>, <<" ", "d", "o", "t">>, <<"C", "o", "m", "m", "a">>, <<"m", "a", "r", "k">> }

\* A call of process.  It reads the lexicon and its argument and writes
\* nothing, so a call that follows another call leads to a state the first
\* call leads to as well: the model takes the calls one per lexicon state.
Process(text) ==
    /\ ~processed
    /\ utterance' = text
    /\ result' = process(commands, text)
    /\ processed' = TRUE
    /\ UNCHANGED commands
    /\ UNCHANGED <<typingVars, fnVars, speechVars, listenerVars, formatVars>>

\* A call of addCustomCommand.
AddCustomCommand(commandType, trigger, action) ==
    /\ commands' = addCustomCommand(commands, commandType, trigger, action)
    /\ utterance' = <<>>
    /\ result' = NoResult
    /\ processed' = FALSE
    /\ UNCHANGED <<typingVars, fnVars, speechVars, listenerVars, formatVars>>

\* A call of removeCustomCommand.
RemoveCustomCommand(commandType, trigger) ==
    /\ commands' = removeCustomCommand(commands, commandType, trigger)
    /\ utterance' = <<>>
    /\ result' = NoResult
    /\ processed' = FALSE
    /\ UNCHANGED <<typingVars, fnVars, speechVars, listenerVars, formatVars>>

\* Some call of process.
ProcessSome == \E text \in Utterances(commands) : Process(text)

CmdNext ==
    \/ ProcessSome
    \/ \E a \in AddInputs : AddCustomCommand(a[1], a[2], a[3])
    \/ \E r \in RemoveInputs : RemoveCustomCommand(r[1], r[2])

CmdSpec == Init /\ [][CmdNext]_vars


\* ------------------------------------------- autoCapitalize, cleanSpacing

\* autoCapitalize that capitalizes after a sentence end without putting the
\* joining space in front.
autoCapitalize_NoJoin(text, previousText) ==
    IF text = <<>> THEN text
    ELSE IF previousText = <<>> \/ Trim(previousText) = <<>>
    THEN Capitalize(text)
    ELSE IF Last(Trim(previousText)) \in {".", "!", "?"}
    THEN Capitalize(text)
    ELSE IF previousText # <<>> /\ Last(previousText) # " "
    THEN <<" ">> \o text
    ELSE text

\* CommandProcessor.autoCapitalize
autoCapitalize(text, previousText) ==
    IF text = <<>> THEN text
    ELSE IF previousText = <<>> \/ Trim(previousText) = <<>>
    THEN Capitalize(text)
    ELSE IF Last(Trim(previousText)) \in {".", "!", "?"}
    THEN <<" ">> \o Capitalize(text)
    ELSE IF previousText # <<>> /\ Last(previousText) # " "
    THEN <<" ">> \o text
    ELSE text

\* [,.!?;:]
SpacingMarks == {",", ".", "!", "?", ";", ":"}

\* \w
RegexWord(c) ==
    \/ \E i \in DOMAIN LowerCase : c = LowerCase[i] \/ c = UpperCase[i]
    \/ c \in {"0", "1", "2", "3", "4", "5", "6", "7", "8", "9", "_"}

\* text.replace(/\s+/g, ' ') that turns every two whitespace characters into
\* one space, so that a run of three leaves two.
RECURSIVE CollapseSpaces_Pairs(_)
CollapseSpaces_Pairs(s) ==
    IF s = <<>> THEN <<>>
    ELSE IF Len(s) >= 2 /\ IsSpace(s[1]) /\ IsSpace(s[2])
    THEN <<" ">> \o CollapseSpaces_Pairs(Tail(Tail(s)))
    ELSE <<Head(s)>> \o CollapseSpaces_Pairs(Tail(s))

\* text.replace(/\s+/g, ' ')
RECURSIVE CollapseSpaces(_)
CollapseSpaces(s) ==
    IF s = <<>> THEN <<>>
    ELSE IF IsSpace(Head(s))
    THEN <<" ">> \o CollapseSpaces(TrimLeft(s))
    ELSE <<Head(s)>> \o CollapseSpaces(Tail(s))

\* text.replace(/\s+([,.!?;:])/g, '$1')
RECURSIVE DropSpaceBeforeMark(_)
DropSpaceBeforeMark(s) ==
    IF s = <<>> THEN <<>>
    ELSE IF IsSpace(Head(s))
    THEN LET rest == TrimLeft(s)
             run == SubSeq(s, 1, Len(s) - Len(rest))
         IN IF rest # <<>> /\ Head(rest) \in SpacingMarks
            THEN <<Head(rest)>> \o DropSpaceBeforeMark(Tail(rest))
            ELSE run \o DropSpaceBeforeMark(rest)
    ELSE <<Head(s)>> \o DropSpaceBeforeMark(Tail(s))

\* text.replace(/([,.!?;:])(\w)/g, '$1 $2')
RECURSIVE SpaceAfterMark(_)
SpaceAfterMark(s) ==
    IF s = <<>> THEN <<>>
    ELSE IF Head(s) \in SpacingMarks /\ Len(s) >= 2 /\ RegexWord(s[2])
    THEN <<s[1], " ", s[2]>> \o SpaceAfterMark(Tail(Tail(s)))
    ELSE <<Head(s)>> \o SpaceAfterMark(Tail(s))

\* CommandProcessor.cleanSpacing
cleanSpacing(text) == SpaceAfterMark(DropSpaceBeforeMark(CollapseSpaces(text)))

\* [.!?]
Terminators == {".", "!", "?"}

\* The first index from i on that holds no whitespace: the end of \s*.
RECURSIVE SkipSpaces(_, _)
SkipSpaces(s, i) ==
    IF i <= Len(s) /\ IsSpace(s[i]) THEN SkipSpaces(s, i + 1) ELSE i

\* text.split(/[.!?]\s*/) from index i on, `piece` being the piece begun.
RECURSIVE SplitSentencesFrom(_, _, _)
SplitSentencesFrom(s, i, piece) ==
    IF i > Len(s) THEN <<piece>>
    ELSE IF s[i] \in Terminators
    THEN <<piece>> \o SplitSentencesFrom(s, SkipSpaces(s, i + 1), <<>>)
    ELSE SplitSentencesFrom(s, i + 1, Append(piece, s[i]))

\* sentences.join(sep)
RECURSIVE JoinWith(_, _)
JoinWith(pieces, sep) ==
    IF pieces = <<>> THEN <<>>
    ELSE IF Len(pieces) = 1 THEN pieces[1]
    ELSE pieces[1] \o sep \o JoinWith(Tail(pieces), sep)

\* TextEditor.deleteLastSentence: the text it leaves in the editor.
deleteLastSentence(text) ==
    LET sentences == SplitSentencesFrom(text, 1, <<>>)
        kept == SubSeq(sentences, 1, Len(sentences) - 1)
    IN IF Len(sentences) > 1
       THEN JoinWith(kept, <<".", " ">>) \o (IF Len(kept) > 0 THEN <<".">> ELSE <<>>)
       ELSE text

\* The strings over an alphabet of length at most n.
RECURSIVE Strings(_, _)
Strings(alphabet, n) ==
    IF n = 0 THEN {<<>>}
    ELSE LET shorter == Strings(alphabet, n - 1)
         IN shorter \cup { Append(x, a) : x \in shorter, a \in alphabet }

\* The texts autoCapitalize is called with.
CapTexts == { <<>>, <<"w">>, <<" ", "w">>, <<"w", "o", "r", "l", "d">> }

\* The preceding texts autoCapitalize is called with.
CapPrevious ==
    Strings({"a", ".", " ", "\n"}, MaxText) \cup { <<"H", "e", "l", "l", "o", ".">>, <<"H", "e", "l", "l", "o">> }

\* The texts cleanSpacing is called with.
CleanTexts == Strings({"a", ",", " ", "\n"}, MaxText)

\* The two files that define Transliteration.
TranslitFiles == {"unnamed/part_001", "js/transliteration.js"}

\* The texts transliterate is called with directly.
TranslitTexts ==
    { <<>>, <<" ">>, <<"a">>, <<"a", "b">>, <<"a", "!">>, <<"a", "!", "?">>,
      <<"a", ",", " ", "b">> }

\* The language codes transliterate is called with directly: the five the
\* code names and one it does not.
TranslitCodes == {"en", "de", "es", "hi", "bn", "fr"}

\* The value of the response field while no fetch has settled.
NoResponse == [kind |-> "none", segments |-> <<>>]

\* The first candidates of the segments of a response: a letter or two of
\* the target script, two words of it, or <<>> for a segment without a usable
\* candidate.
SegmentLists(languageCode) ==
    LET c == ScriptChar(languageCode)
        candidates == { <<>>, <<c>>, <<c, c>>, <<c, " ", c>> }
    IN UNION { [1..n -> candidates] : n \in 0..MaxSegments }

\* The responses to a direct call.
DirectResponses(languageCode) ==
    { [kind |-> k, segments |-> <<>>] : k \in {"throw", "notok", "malformed"} }
    \cup { [kind |-> "ok", segments |-> segs] : segs \in SegmentLists(languageCode) }

\* The call that follows addCustomCommand(commandType, trigger, action):
\* process with the trigger as it was given, or removeCustomCommand on the
\* same category with the trigger in some letter case.
FollowUps(trigger) ==
    { [fn |-> "process", arg |-> trigger] }
    \cup { [fn |-> "removeCustomCommand", arg |-> t] : t \in CaseVariants(trigger) }

\* The texts of the editor deleteLastSentence is called on.
DeleteTexts == Strings({"a", ".", "!", " "}, MaxText)

\* The texts transliterateWord is called with: words, whitespace and a
\* special character, in every arrangement.
WordTexts == Strings({"a", " ", "\n", "!"}, MaxLen)

\* The language codes transliterateWord is called with.
WordCodes == {"en", "hi", "bn"}

\* The calls of the text functions: name and arguments.
Calls ==
    { [fn |-> "autoCapitalize", phase |-> "called", text |-> text,
       previousText |-> previousText] :
         text \in CapTexts, previousText \in CapPrevious }
    \cup { [fn |-> "cleanSpacing", phase |-> "called", text |-> text] :
             text \in CleanTexts }
    \cup { [fn |-> "transliterate", phase |-> "called", file |-> file,
            text |-> text, languageCode |-> languageCode, requests |-> 0,
            response |-> NoResponse] :
             file \in TranslitFiles, text \in TranslitTexts,
             languageCode \in TranslitCodes }
    \cup UNION { { [fn |-> "addCustomCommand", phase |-> "called",
                     commandType |-> a[1], trigger |-> a[2], action |-> a[3],
                     then |-> then] : then \in FollowUps(a[2]) } :
                   a \in AddInputs }
    \cup { [fn |-> "removeCustomCommand", phase |-> "called",
            commandType |-> r[1], trigger |-> r[2]] : r \in RemoveInputs }
    \cup { [fn |-> "deleteLastSentence", phase |-> "called", text |-> text] :
             text \in DeleteTexts }
    \cup { [fn |-> "transliterateWord", phase |-> "called", file |-> file,
            text |-> text, languageCode |-> languageCode, requests |-> 0,
            transliterated |-> FALSE] :
             file \in TranslitFiles, text \in WordTexts,
             languageCode \in WordCodes }

\* A text function has been called with arguments of the input sets.
FnInit ==
    /\ InitTyping
    /\ InitCommands
    /\ InitSpeech(TRUE)
    /\ InitListeners
    /\ InitFormat(FALSE)
    /\ call \in Calls
    /\ returned = <<>>

\* The call of autoCapitalize returns.
AutoCapitalize ==
    /\ call.fn = "autoCapitalize" /\ call.phase = "called"
    /\ call' = [call EXCEPT !.phase = "returned"]
    /\ returned' = autoCapitalize(call.text, call.previousText)
    /\ UNCHANGED <<typingVars, cmdVars, speechVars, listenerVars, formatVars>>

\* The call of cleanSpacing returns.
CleanSpacing ==
    /\ call.fn = "cleanSpacing" /\ call.phase = "called"
    /\ call' = [call EXCEPT !.phase = "returned"]
    /\ returned' = cleanSpacing(call.text)
    /\ UNCHANGED <<typingVars, cmdVars, speechVars, listenerVars, formatVars>>

\* transliterate up to its first await: it returns the text at once or
\* sets isTransliterating and, when the code has an engine locale, issues the
\* fetch.
TransliterateCall ==
    /\ call.fn = "transliterate" /\ call.phase = "called"
    /\ IF IssuesLookup(call.text, call.languageCode)
       THEN /\ call' = [call EXCEPT !.phase = "fetching", !.requests = 1]
            /\ isTransliterating' = TRUE
            /\ UNCHANGED returned
       ELSE /\ call' = [call EXCEPT !.phase = "returned"]
            /\ returned' = IF call.file = "js/transliteration.js"
                           THEN transliterateJs(call.text, call.languageCode, NoResponse)
                           ELSE transliterate(call.text, call.languageCode, NoResponse)
            /\ UNCHANGED isTransliterating
    /\ UNCHANGED <<textContent, caret, currentMode, isActive, currentLanguage,
                   translitLanguage, pending, settled>>
    /\ UNCHANGED <<cmdVars, speechVars, listenerVars, formatVars>>

\* The fetch settles with `response` and transliterate returns.
TransliterateReturn(response) ==
    /\ call.fn = "transliterate" /\ call.phase = "fetching"
    /\ response \in DirectResponses(call.languageCode)
    /\ call' = [call EXCEPT !.phase = "returned", !.response = response]
    /\ returned' = IF call.file = "js/transliteration.js"
                   THEN transliterateJs(call.text, call.languageCode, response)
                   ELSE transliterate(call.text, call.languageCode, response)
    /\ isTransliterating' = FALSE
    /\ UNCHANGED <<textContent, caret, currentMode, isActive, currentLanguage,
                   translitLanguage, pending, settled>>
    /\ UNCHANGED <<cmdVars, speechVars, listenerVars, formatVars>>

\* The fetch of the direct call settles with some response.
TransliterateReturnSome ==
    /\ call.fn = "transliterate"
    /\ \E response \in DirectResponses(call.languageCode) :
          TransliterateReturn(response)

\* The call of addCustomCommand returns.
AddCustomCommandCall ==
    /\ call.fn = "addCustomCommand" /\ call.phase = "called"
    /\ call' = [call EXCEPT !.phase = "added"]
    /\ commands' = addCustomCommand(commands, call.commandType, call.trigger,
                                    call.action)
    /\ UNCHANGED <<utterance, result, processed, returned>>
    /\ UNCHANGED <<typingVars, speechVars, listenerVars, formatVars>>

\* process is called after addCustomCommand and returns.
ThenProcess ==
    /\ call.fn = "addCustomCommand" /\ call.phase = "added"
    /\ call.then.fn = "process"
    /\ call' = [call EXCEPT !.phase = "returned"]
    /\ utterance' = call.then.arg
    /\ result' = process(commands, call.then.arg)
    /\ processed' = TRUE
    /\ UNCHANGED <<commands, returned>>
    /\ UNCHANGED <<typingVars, speechVars, listenerVars, formatVars>>

\* removeCustomCommand is called after addCustomCommand and returns.
ThenRemove ==
    /\ call.fn = "addCustomCommand" /\ call.phase = "added"
    /\ call.then.fn = "removeCustomCommand"
    /\ call' = [call EXCEPT !.phase = "returned"]
    /\ commands' = removeCustomCommand(commands, call.commandType, call.then.arg)
    /\ UNCHANGED <<utterance, result, processed, returned>>
    /\ UNCHANGED <<typingVars, speechVars, listenerVars, formatVars>>

\* The call of removeCustomCommand on the shipped lexicon returns.
RemoveCustomCommandCall ==
    /\ call.fn = "removeCustomCommand" /\ call.phase = "called"
    /\ call' = [call EXCEPT !.phase = "returned"]
    /\ commands' = removeCustomCommand(commands, call.commandType, call.trigger)
    /\ UNCHANGED <<utterance, result, processed, returned>>
    /\ UNCHANGED <<typingVars, speechVars, listenerVars, formatVars>>

\* The call of deleteLastSentence on an editor that holds call.text returns;
\* `returned` is the text it leaves in the editor.
DeleteLastSentence ==
    /\ call.fn = "deleteLastSentence" /\ call.phase = "called"
    /\ call' = [call EXCEPT !.phase = "returned"]
    /\ returned' = deleteLastSentence(call.text)
    /\ UNCHANGED <<typingVars, cmdVars, speechVars, listenerVars, formatVars>>

\* The call of transliterateWord returns; a lookup it issues is answered by
\* `response` before anything else runs, and transliterate leaves
\* isTransliterating false behind it.
TransliterateWord(response) ==
    /\ call.fn = "transliterateWord" /\ call.phase = "called"
    /\ response \in DirectResponses(call.languageCode)
    /\ LET r == transliterateWord(call.file, call.text, call.languageCode, response)
       IN /\ call' = [call EXCEPT !.phase = "returned", !.requests = r.requests,
                                  !.transliterated = r.transliterated]
          /\ returned' = r.text
          /\ isTransliterating' = IF r.requests > 0 THEN FALSE ELSE isTransliterating
    /\ UNCHANGED <<textContent, caret, currentMode, isActive, currentLanguage,
                   translitLanguage, pending, settled>>
    /\ UNCHANGED <<cmdVars, speechVars, listenerVars, formatVars>>

\* The call of transliterateWord returns, whatever the engine would answer.
TransliterateWordSome ==
    /\ call.fn = "transliterateWord"
    /\ \E response \in DirectResponses(call.languageCode) :
          TransliterateWord(response)

FnNext ==
    \/ TransliterateWordSome
    \/ AutoCapitalize
    \/ CleanSpacing
    \/ TransliterateCall
    \/ TransliterateReturnSome
    \/ AddCustomCommandCall
    \/ ThenProcess
    \/ ThenRemove
    \/ RemoveCustomCommandCall
    \/ DeleteLastSentence

FnSpec == FnInit /\ [][FnNext]_vars

\* -------------------------------------------------------- the typing buffer

\* TypingMode.updateTypingBuffer: the last piece of the text split at
\* whitespace.
updateTypingBuffer(text) == Last(SplitWs(text))

\* An input event on the editor (its text changed by a key, a paste or a
\* drop): onInput, which for Hindi and Bengali clears the debounce timer and
\* sets it anew.
onInput ==
    /\ inputListeners # {}
    /\ inputTimeout' = (inputTimeout \/ currentLanguage \in TranslitLanguages)
    /\ inputSinceClear' = TRUE
    /\ UNCHANGED <<keydownListeners, inputListeners, handleKeyDown, handleInput,
                   typingBuffer>>
    /\ UNCHANGED <<typingVars, cmdVars, fnVars, speechVars, formatVars>>

\* The debounce timer of onInput fires, 50 ms after the event.
InputTimeout ==
    /\ inputTimeout
    /\ inputTimeout' = FALSE
    /\ typingBuffer' = updateTypingBuffer(textContent)
    /\ UNCHANGED <<keydownListeners, inputListeners, handleKeyDown, handleInput,
                   inputSinceClear>>
    /\ UNCHANGED <<typingVars, cmdVars, fnVars, speechVars, formatVars>>

\* Some key the handlers leave to the browser.
KeyDownDefaultSome == \E k \in Keys : KeyDownDefault(k)

\* Some change of the typing-language selector.
setLanguageSome == \E l \in Languages : setLanguage(l)

BufferNext ==
    \/ KeyDownDefaultSome
    \/ onInput
    \/ InputTimeout
    \/ SwitchToType
    \/ SwitchToDictate
    \/ setLanguageSome

BufferSpec == Init /\ [][BufferNext]_vars

\* ---------------------------------------------------------------- dictation

\* The most restart timers of SpeechRecognition.setLanguage pending at once.
MaxTimers == 1

\* The longest text dictation builds.
MaxDictated == 4

\* event.error of the recognizer: the four codes handleSpeechError names and
\* one it does not.
ErrorCodes == {"no-speech", "audio-capture", "not-allowed", "network", "aborted"}

\* A handler that only hides the preview.
handleSpeechError_Silent(error) == <<"hideInterimPreview">>

\* DictationApp.handleSpeechError: the calls it makes.  The cases of its
\* switch differ in the message and the status text only; each sets a status
\* of type 'error'.
handleSpeechError(error) ==
    <<"updateStatus:error", "showNotification:error", "hideInterimPreview">>

\* The object recognition.onresult hands to the callback.
SpeechResult(final, interim) ==
    [final |-> final, interim |-> interim, isFinal |-> Len(final) > 0]

\* A handler that classifies every event.
ResultPath_AlwaysProcess(speechResult) == "process"

\* The branch handleSpeechResult takes: the interim preview, the warning for
\* an empty transcript, or the classification of the trimmed final text.
ResultPath(speechResult) ==
    IF ~speechResult.isFinal /\ speechResult.interim # <<>> THEN "preview"
    ELSE IF Trim(speechResult.final) = <<>> THEN "noSpeech"
    ELSE "process"

\* DictationApp.executeCommand: the text it leaves in the editor.  A line or
\* paragraph break adds an element and no character to textContent, a
\* formatting command has no case; the transcripts of the model hold no undo
\* and no redo, which the browser's history decides.
executeCommand(commandData, text, position) ==
    IF commandData.commandType = "PUNCTUATION"
    THEN insertText(text, position, commandData.text).text
    ELSE IF commandData.commandType = "EDITING" /\ commandData.command = "DELETE_SENTENCE"
    THEN deleteLastSentence(text)
    ELSE text

\* The final transcripts of the recognizer: none, a blank, a word, a shipped
\* punctuation trigger and a shipped editing trigger.
Finals ==
    { <<>>, <<" ">>, <<"a">>, <<"p", "e", "r", "i", "o", "d">>,
      <<"d", "e", "l", "e", "t", "e", " ", "t", "h", "a", "t">> }

\* The interim transcripts of the recognizer.
Interims == { <<>>, <<"a">> }

\* The guard of SpeechRecognition.start: recognition.start() is called.
CallsStart == ~recognizerListening

\* recognition.start(): an idle recognizer starts; on any other it throws
\* InvalidStateError, which start catches.
Started(state) == IF state = "idle" THEN "starting" ELSE state

\* The application as constructed, with or without the Web Speech API.
DictInit ==
    /\ InitTyping
    /\ InitCommands
    /\ \E isSupported \in BOOLEAN : InitSpeech(isSupported)
    /\ InitListeners
    /\ InitFormat(FALSE)
    /\ call = [fn |-> "none", phase |-> "none"]
    /\ returned = <<>>

\* A click on the Start button: startDictation.
StartClick ==
    /\ handlersAttached /\ startEnabled
    /\ IF isListening
       THEN /\ did' = <<>>
            /\ UNCHANGED <<recognition, caret>>
       ELSE /\ recognition' = IF CallsStart THEN Started(recognition) ELSE recognition
            /\ did' = IF CallsStart THEN <<"recognition.start">> ELSE <<>>
            /\ caret' = Len(textContent)
    /\ UNCHANGED <<textContent, currentMode, isActive, currentLanguage,
                   translitLanguage, isTransliterating, pending, settled>>
    /\ UNCHANGED <<supported, handlersAttached, recognizerListening, isListening,
                   restartTimers, startEnabled, listeningOnEntry>>
    /\ UNCHANGED <<cmdVars, fnVars, listenerVars, formatVars>>

\* A click on the Stop button, which onStart enables and onEnd disables:
\* stopDictation.
StopClick ==
    /\ handlersAttached /\ isListening
    /\ recognition' = IF CallsStop THEN Stopped(recognition) ELSE recognition
    /\ did' = IF CallsStop THEN <<"recognition.stop">> ELSE <<>>
    /\ UNCHANGED <<supported, handlersAttached, recognizerListening, isListening,
                   restartTimers, startEnabled, listeningOnEntry>>
    /\ UNCHANGED <<typingVars, cmdVars, fnVars, listenerVars, formatVars>>

\* A change of the language selector: changeLanguage.  LanguageManager
\* notifies the change; SpeechRecognition.setLanguage, when listening, stops
\* the recognizer and sets a timer of 100 ms that calls start.
LanguageSelectChange ==
    /\ handlersAttached
    /\ recognizerListening => restartTimers < MaxTimers
    /\ recognition' = IF recognizerListening THEN Stopped(recognition) ELSE recognition
    /\ restartTimers' = IF recognizerListening THEN restartTimers + 1 ELSE restartTimers
    /\ did' = <<"showNotification:success">>
                \o (IF recognizerListening THEN <<"recognition.stop">> ELSE <<>>)
    /\ UNCHANGED <<supported, handlersAttached, recognizerListening, isListening,
                   startEnabled, listeningOnEntry>>
    /\ UNCHANGED <<typingVars, cmdVars, fnVars, listenerVars, formatVars>>

\* A timer of SpeechRecognition.setLanguage fires: start.
RestartTimeout ==
    /\ restartTimers > 0
    /\ restartTimers' = restartTimers - 1
    /\ recognition' = IF CallsStart THEN Started(recognition) ELSE recognition
    /\ did' = IF CallsStart THEN <<"recognition.start">> ELSE <<>>
    /\ UNCHANGED <<supported, handlersAttached, recognizerListening, isListening,
                   startEnabled, listeningOnEntry>>
    /\ UNCHANGED <<typingVars, cmdVars, fnVars, listenerVars, formatVars>>

\* recognition.onstart and the onStart callback of the app.
OnStart ==
    /\ recognition = "starting"
    /\ recognition' = "running"
    /\ recognizerListening' = TRUE
    /\ isListening' = TRUE
    /\ startEnabled' = FALSE
    /\ did' = <<"updateStatus:listening">>
    /\ UNCHANGED <<supported, handlersAttached, restartTimers, listeningOnEntry>>
    /\ UNCHANGED <<typingVars, cmdVars, fnVars, listenerVars, formatVars>>

\* recognition.onend and the onEnd callback of the app: the recognizer has
\* ended, after stop, after an error or by itself.
OnEnd ==
    /\ recognition \in {"running", "ending"}
    /\ recognition' = "idle"
    /\ recognizerListening' = FALSE
    /\ isListening' = FALSE
    /\ startEnabled' = TRUE
    /\ did' = <<"updateStatus:ready">>
    /\ UNCHANGED <<supported, handlersAttached, restartTimers, listeningOnEntry>>
    /\ UNCHANGED <<typingVars, cmdVars, fnVars, listenerVars, formatVars>>

\* recognition.onerror: the error callback of the app, then isListening is
\* cleared for two of the codes.  The recognizer ends after an error.
OnError(error) ==
    /\ recognition \in {"starting", "running"}
    /\ recognition' = "ending"
    /\ did' = handleSpeechError(error)
    /\ recognizerListening' = IF error \in {"no-speech", "audio-capture"}
                              THEN FALSE ELSE recognizerListening
    /\ UNCHANGED <<supported, handlersAttached, isListening, restartTimers,
                   startEnabled, listeningOnEntry>>
    /\ UNCHANGED <<typingVars, cmdVars, fnVars, listenerVars, formatVars>>

\* recognition.onresult and handleSpeechResult.  A final transcript goes
\* through process; a command is executed, plain text is capitalized and
\* inserted at the caret, which focus then puts at the end.  Results come
\* from a recognizer that has started and has not ended yet (after stop it
\* still delivers what it has heard).
OnResult(final, interim) ==
    /\ recognition \in {"running", "ending"} /\ isListening
    /\ LET speechResult == SpeechResult(final, interim)
           path == ResultPath(speechResult)
           transcript == Trim(speechResult.final)
           commandData == process(commands, transcript)
           after == IF commandData.hasCommand
                    THEN executeCommand(commandData, textContent, caret)
                    ELSE insertText(textContent, caret,
                                    autoCapitalize(commandData.text, textContent)).text
       IN IF path = "preview"
          THEN /\ did' = <<"showInterimPreview", "updateStatus:detecting">>
               /\ UNCHANGED <<textContent, caret, utterance, result, processed>>
          ELSE IF path = "noSpeech"
          THEN /\ did' = <<"hideInterimPreview", "updateStatus:processing",
                           "updateStatus:error", "showNotification:warning">>
               /\ UNCHANGED <<textContent, caret, utterance, result, processed>>
          ELSE /\ Len(after) <= MaxDictated
               /\ textContent' = after
               /\ caret' = Len(after)
               /\ utterance' = transcript
               /\ result' = commandData
               /\ processed' = TRUE
               /\ did' = <<"hideInterimPreview", "updateStatus:processing", "process",
                           IF commandData.hasCommand THEN "executeCommand" ELSE "insertText",
                           "updateStatus:listening">>
    /\ UNCHANGED <<currentMode, isActive, currentLanguage, translitLanguage,
                   isTransliterating, pending, settled, commands>>
    /\ UNCHANGED <<supported, handlersAttached, recognition, recognizerListening,
                   isListening, restartTimers, startEnabled, listeningOnEntry>>
    /\ UNCHANGED <<fnVars, listenerVars, formatVars>>

\* Some error event.
OnErrorSome == \E error \in ErrorCodes : OnError(error)

\* Some result event.
OnResultSome == \E final \in Finals : \E interim \in Interims : OnResult(final, interim)

DictNext ==
    \/ StartClick
    \/ StopClick
    \/ LanguageSelectChange
    \/ RestartTimeout
    \/ OnStart
    \/ OnEnd
    \/ OnErrorSome
    \/ OnResultSome
    \/ SwitchToType
    \/ SwitchToDictate

DictSpec == DictInit /\ [][DictNext]_vars

\* A result event that carries one spoken word, an interim transcript, both
\* or neither.
OnResultWord ==
    \E final \in {<<>>, <<"a">>} : \E interim \in Interims : OnResult(final, interim)

\* The two modes side by side: the mode selector, the typing-language
\* selector, keys typed into the editor, the Start and Stop buttons and the
\* events of the recognizer.
ModeNext ==
    \/ SwitchToType
    \/ SwitchToDictate
    \/ setLanguageSome
    \/ KeyDownDefaultSome
    \/ StartClick
    \/ StopClick
    \/ OnStart
    \/ OnEnd
    \/ OnErrorSome
    \/ OnResultWord

ModeSpec == Init /\ [][ModeNext]_vars

\* The end event a stopped recognizer owes.
EndsAfterStop == recognition = "ending" /\ OnEnd

\* Dictation with language changes and nothing that works against a restart:
\* no error, no Stop click, no mode switch.
RestartNext ==
    \/ StartClick
    \/ LanguageSelectChange
    \/ RestartTimeout
    \/ OnStart
    \/ OnEnd
    \/ OnResultSome

\* The event loop runs a timer that is due, and the browser delivers the start
\* event of a recognizer it has started and the end event of one it has
\* stopped.  Nothing makes the user click.
RestartSpec ==
    /\ DictInit /\ [][RestartNext]_vars
    /\ WF_vars(RestartTimeout) /\ WF_vars(OnStart) /\ WF_vars(EndsAfterStop)

\* -------------------------------------------------------- keyboard shortcuts

\* e.key of the keydown events of the model: the three format keys and one
\* key neither handler acts on.
ShortcutKeys == {"b", "i", "u", "a"}

\* The keydown events: key, modifiers, and whether the focus is in the editor.
ShortcutEvents ==
    [key : ShortcutKeys, ctrlKey : BOOLEAN, metaKey : BOOLEAN,
     target : {"editor", "document"}]

\* The format command of a key, as both handlers map it.
FormatOf(key) ==
    IF key = "b" THEN <<"bold">>
    ELSE IF key = "i" THEN <<"italic">>
    ELSE IF key = "u" THEN <<"underline">>
    ELSE <<>>

\* TextEditor.handleKeyboardShortcuts, the keydown listener of the editor:
\* the format commands it calls.  The modifier is the platform's.
EditorShortcut(e, mac) ==
    IF (IF mac THEN e.metaKey ELSE e.ctrlKey) THEN FormatOf(e.key) ELSE <<>>

\* DictationApp.handleKeyboardShortcuts, the keydown listener of the
\* document: the format commands it calls.
AppShortcut(e, mode) ==
    IF mode = "type" THEN <<>>
    ELSE IF e.ctrlKey \/ e.metaKey THEN FormatOf(e.key) ELSE <<>>

\* document.execCommand of a format command toggles the format.
RECURSIVE Toggled(_, _)
Toggled(formats, calls) ==
    IF calls = <<>> THEN formats
    ELSE Toggled([formats EXCEPT ![Head(calls)] = ~@], Tail(calls))

\* The application on some platform.
ShortcutInit ==
    /\ InitTyping
    /\ InitCommands
    /\ InitSpeech(TRUE)
    /\ InitListeners
    /\ \E mac \in BOOLEAN : InitFormat(mac)
    /\ call = [fn |-> "none", phase |-> "none"]
    /\ returned = <<>>

\* A keydown event: the listener of the editor runs when the focus is in the
\* editor, then the event bubbles to the listener of the document, which
\* setupEventHandlers attached; neither handler stops the propagation.  The
\* keydown listener of TypingMode acts on trigger keys only.
ShortcutKeyDown(e) ==
    /\ LET made == (IF e.target = "editor" THEN EditorShortcut(e, isMac) ELSE <<>>)
                     \o (IF handlersAttached THEN AppShortcut(e, currentMode) ELSE <<>>)
       IN /\ did' = made
          /\ formatting' = Toggled(formatting, made)
    /\ UNCHANGED <<supported, handlersAttached, recognition, recognizerListening,
                   isListening, restartTimers, startEnabled, listeningOnEntry>>
    /\ UNCHANGED <<typingVars, cmdVars, fnVars, listenerVars, isMac>>

\* Some keydown event.
ShortcutKeyDownSome == \E e \in ShortcutEvents : ShortcutKeyDown(e)

ShortcutNext ==
    \/ ShortcutKeyDownSome
    \/ SwitchToType
    \/ SwitchToDictate

ShortcutSpec == ShortcutInit /\ [][ShortcutNext]_vars

\* ------------------------------------------------------ typing-mode claims

\* The string transliterate resolves call i with, given `response`.
ResultOf(i, response) ==
    transliterate(pending[i].lastWord, pending[i].languageCode, response)

\* t with a single space put in at offset c.
WithSpaceAt(t, c) == insertText(t, c, <<" ">>).text

\* The run of word characters that ends at offset c of t.
TrailingRun(t, c) == SubSeq(t, c - TrailingWordLen(t, c) + 1, c)

\* C1: when a call resumes while the mode is Dictate (the mode was switched
\* after the terminating keystroke), the text is left as it is: nothing is
\* replaced and nothing is inserted.
C1_ModeSwitchDiscardsResult ==
    [][\A i \in DOMAIN pending :
         \A response \in Responses(pending[i].lastWord, pending[i].languageCode) :
            (Settle(i, response) /\ currentMode = "dictate")
                => textContent' = textContent]_vars

\* C2: at most one lookup is outstanding at any time.
C2_SingleFlight ==
    Cardinality({i \in DOMAIN pending : pending[i].phase = "fetching"}) <= 1

\* C3: when a call resumes under a typing language other than the one its
\* lookup was issued for, the result is not applied: the text is unchanged
\* apart, at most, from the terminating character at the caret.
C3_LanguageChangeDiscardsResult ==
    [][\A i \in DOMAIN pending :
         \A response \in Responses(pending[i].lastWord, pending[i].languageCode) :
            (Settle(i, response) /\ pending[i].languageCode # currentLanguage)
                => textContent' \in {textContent, WithSpaceAt(textContent, caret)}]_vars

\* The texts t becomes when one occurrence of token is replaced by newWord,
\* or none is.
TokenReplaced(t, token, newWord) ==
    {t} \cup { SubSeq(t, 1, p) \o newWord \o SubSeq(t, p + Len(token) + 1, Len(t)) :
               p \in { q \in 0..(Len(t) - Len(token)) :
                       SubSeq(t, q + 1, q + Len(token)) = token } }

\* C4: a commit loses nothing typed in the meantime: when the call for a
\* Latin word resumes, the text after it is the text before it with at most
\* the token that was sent replaced by the result, plus the one terminating
\* character.
C4_InterveningEditsKept ==
    [][\A i \in DOMAIN pending :
         \A response \in Responses(pending[i].lastWord, pending[i].languageCode) :
            (Settle(i, response) /\ AllLatin(pending[i].lastWord))
                => \E q \in DOMAIN textContent' :
                      RemoveAt(textContent', q) \in
                         TokenReplaced(textContent, pending[i].lastWord,
                                       ResultOf(i, response))]_vars

\* C5: the token sent to the lookup on a terminating keystroke is the
\* maximal run of script-eligible characters that ends at the caret (the span
\* the commit replaces).
C5_TokenIsRunAtCaret ==
    [][\A k \in Keys :
         KeyDownLookup(k)
            => pending'[Len(pending')].lastWord = TrailingRun(textContent, caret)]_vars

\* C6: once a terminating keystroke k has been fully processed, the character
\* inserted behind the token is k.
C6_TerminatorIsTheKey ==
    [][\A i \in DOMAIN pending :
         \A response \in Responses(pending[i].lastWord, pending[i].languageCode) :
            Settle(i, response)
                => /\ caret' >= 1
                   /\ textContent'[caret'] = pending[i].key]_vars

\* C7: the editor holds just a Latin word w, typed from the empty editor,
\* the caret is behind it, space was pressed once and its lookup succeeded:
\* when the call resumes the text becomes the engine's candidate for w
\* followed by exactly one space.
C7_WordThenSpace ==
    [][\A i \in DOMAIN pending :
         \A response \in Responses(pending[i].lastWord, pending[i].languageCode) :
            ( /\ Settle(i, response)
              /\ ~IsFailure(response)
              /\ Len(pending) = 1
              /\ pending[i].key = " "
              /\ AllLatin(textContent)
              /\ textContent = pending[i].lastWord
              /\ caret = Len(textContent) )
            => /\ textContent' = Concat(NonEmpty(response.segments)) \o <<" ">>
               /\ caret' = Len(textContent')
               /\ ~HasLatin(textContent')]_vars

\* C7 witness: a commit has just replaced the word; the editor holds a
\* target-script word, one space behind it and the caret at the end.
C7_Witness ==
    /\ settled = "replaced"
    /\ pending = <<>>
    /\ Len(textContent) = 3
    /\ textContent[3] = " "
    /\ \A j \in 1..2 : textContent[j] \in Devanagari \cup Bengali
    /\ caret = 3

C9_KeystrokeCompletes == (pending # <<>>) ~> (pending = <<>>)

\* ------------------------------------------------- CommandProcessor claims

\* C10: when process is called with a variant (letter case, surrounding
\* spaces) of a trigger T of the punctuation lexicon, it returns a
\* punctuation command whose text is the literal the lexicon maps T to.
C10_PunctuationTriggerVariants ==
    processed =>
      \A i \in DOMAIN commands.punctuation :
         utterance \in Variants(commands.punctuation[i].key) =>
           /\ result.hasCommand
           /\ result.commandType = "PUNCTUATION"
           /\ result.text = commands.punctuation[i].value

\* The navigation and editing lexicons are the shipped ones.
ShippedDirectives ==
    /\ commands.navigation = initializeCommands.navigation
    /\ commands.editing = initializeCommands.editing

\* C11: with the shipped navigation and editing lexicons, process called
\* with "I said " + T, T a shipped punctuation trigger, does not return a
\* punctuation command: it returns plain text that carries the utterance.
C11_SaidTriggerIsPlainText ==
    (processed /\ ShippedDirectives) =>
      \A i \in DOMAIN initializeCommands.punctuation :
         utterance = Said(initializeCommands.punctuation[i].key) =>
           /\ ~result.hasCommand
           /\ result.commandType # "PUNCTUATION"
           /\ result.text = utterance

\* process has returned for "I said comma" and the result is plain text.
C11_Witness ==
    /\ processed
    /\ ShippedDirectives
    /\ utterance = Said(<<"c", "o", "m", "m", "a">>)
    /\ ~result.hasCommand

\* The commandType process reports for a category.
TypeOf(category) ==
    IF category = "navigation" THEN "NAVIGATION" ELSE "EDITING"

\* C12: with the shipped navigation and editing lexicons, process called
\* with "please " + T + " now", T a shipped navigation or editing trigger,
\* returns a command of T's category whose directive is the one mapped to T.
C12_EmbeddedTriggerDirective ==
    (processed /\ ShippedDirectives) =>
      \A category \in {"navigation", "editing"} :
        \A i \in DOMAIN initializeCommands[category] :
           utterance = PleaseNow(initializeCommands[category][i].key) =>
             /\ result.hasCommand
             /\ result.commandType = TypeOf(category)
             /\ result.command = initializeCommands[category][i].value

\* process has returned UNDO for "please undo now".
C12_Witness ==
    /\ processed
    /\ ShippedDirectives
    /\ utterance = PleaseNow(<<"u", "n", "d", "o">>)
    /\ result.commandType = "EDITING"
    /\ result.command = "UNDO"

\* The utterance, lower-cased and trimmed.
Normalized == Trim(toLowerCase(utterance))

\* The utterance is exactly a punctuation trigger of the lexicon.
EqualsPunctuation ==
    \E i \in DOMAIN commands.punctuation : Normalized = commands.punctuation[i].key

\* The utterance contains a trigger of the category.
ContainsTrigger(category) ==
    \E i \in DOMAIN commands[category] :
       \E k \in 0..(Len(Normalized) - Len(commands[category][i].key)) :
          SubSeq(Normalized, k + 1, k + Len(commands[category][i].key))
            = commands[category][i].key

\* C13: whatever add and remove calls came before, a non-empty utterance
\* that equals a punctuation trigger is a punctuation command; otherwise one
\* that contains a navigation trigger is a navigation command; an editing
\* command is returned only when neither of the two matches.
C13_CategoryPriority ==
    (processed /\ utterance # <<>>) =>
      /\ EqualsPunctuation => result.commandType = "PUNCTUATION"
      /\ (~EqualsPunctuation /\ ContainsTrigger("navigation"))
           => result.commandType = "NAVIGATION"
      /\ result.commandType = "EDITING"
           => (~EqualsPunctuation /\ ~ContainsTrigger("navigation")
                 /\ ContainsTrigger("editing"))

\* process has returned a punctuation command for an utterance that equals a
\* punctuation trigger and contains a navigation trigger.
C13_Witness ==
    /\ processed
    /\ utterance # <<>>
    /\ EqualsPunctuation
    /\ ContainsTrigger("navigation")
    /\ result.commandType = "PUNCTUATION"

\* C14: an utterance that is empty after trimming gives plain text with an
\* empty text.
C14_BlankIsEmptyPlainText ==
    (processed /\ Trim(utterance) = <<>>) =>
      /\ ~result.hasCommand
      /\ result.text = <<>>

\* C15: process always returns a result of one of the four kinds, and when
\* no trigger of any category matches the result is plain text that carries
\* the utterance as it was given, letter case included.
C15_TotalAndPlainKeepsText ==
    processed =>
      /\ result.hasCommand \in BOOLEAN
      /\ result.hasCommand =>
           result.commandType \in {"PUNCTUATION", "NAVIGATION", "EDITING"}
      /\ (~EqualsPunctuation /\ ~ContainsTrigger("navigation")
            /\ ~ContainsTrigger("editing"))
           => (~result.hasCommand /\ result.text = utterance)

\* process has returned plain text "Hello" for "Hello".
C15_Witness ==
    /\ processed
    /\ utterance = <<"H", "e", "l", "l", "o">>
    /\ ~result.hasCommand
    /\ result.text = utterance

\* ------------------------------------------------- text-function claims

\* The text is empty or made of whitespace only.
AllWhitespace(s) == \A i \in DOMAIN s : s[i] \in Whitespace

\* The last character of s that is no whitespace ("" when there is none).
RECURSIVE LastNonWhitespace(_)
LastNonWhitespace(s) ==
    IF s = <<>> THEN ""
    ELSE IF s[Len(s)] \in Whitespace
    THEN LastNonWhitespace(SubSeq(s, 1, Len(s) - 1))
    ELSE s[Len(s)]

\* A non-empty text with its first character in upper case.
UpperFirst(text) == <<toUpperCaseChar(text[1])>> \o SubSeq(text, 2, Len(text))

\* The reference rule of autoCapitalize for a non-empty text.
ReferenceCapitalize(text, precedingText) ==
    IF AllWhitespace(precedingText) THEN UpperFirst(text)
    ELSE IF LastNonWhitespace(precedingText) \in {".", "!", "?"}
    THEN <<" ">> \o UpperFirst(text)
    ELSE IF precedingText[Len(precedingText)] # " "
    THEN <<" ">> \o text
    ELSE text

\* C16: for a non-empty text, autoCapitalize returns what the reference rule
\* gives; ("world", "Hello.") gives " World", ("world", "") gives "World"
\* and ("world", "Hello") gives " world".
C16_AutoCapitalizeRule ==
    (call.fn = "autoCapitalize" /\ call.phase = "returned" /\ call.text # <<>>) =>
      /\ returned = ReferenceCapitalize(call.text, call.previousText)
      /\ (call.text = <<"w", "o", "r", "l", "d">> /\ call.previousText = <<"H", "e", "l", "l", "o", ".">>)
           => returned = <<" ", "W", "o", "r", "l", "d">>
      /\ (call.text = <<"w", "o", "r", "l", "d">> /\ call.previousText = <<>>)
           => returned = <<"W", "o", "r", "l", "d">>
      /\ (call.text = <<"w", "o", "r", "l", "d">> /\ call.previousText = <<"H", "e", "l", "l", "o">>)
           => returned = <<" ", "w", "o", "r", "l", "d">>

\* autoCapitalize("world", "Hello.") has returned " World".
C16_Witness ==
    /\ call.fn = "autoCapitalize" /\ call.phase = "returned"
    /\ call.text = <<"w", "o", "r", "l", "d">>
    /\ call.previousText = <<"H", "e", "l", "l", "o", ".">>
    /\ returned = <<" ", "W", "o", "r", "l", "d">>

\* C17: cleanSpacing applied to what cleanSpacing returned changes nothing.
C17_CleanSpacingIdempotent ==
    (call.fn = "cleanSpacing" /\ call.phase = "returned") =>
      cleanSpacing(returned) = returned

\* cleanSpacing("a ,a") has returned "a, a".
C17_Witness ==
    /\ call.fn = "cleanSpacing" /\ call.phase = "returned"
    /\ call.text = <<"a", " ", ",", "a">>
    /\ returned = <<"a", ",", " ", "a">>

\* C18: a call of transliterate with an empty text, or with a language code
\* other than hi and bn, issues no request and returns the text unchanged.
C18_PassThroughWithoutRequest ==
    (/\ call.fn = "transliterate"
     /\ call.text = <<>> \/ call.languageCode \notin {"hi", "bn"}) =>
      /\ call.phase # "fetching"
      /\ call.requests = 0
      /\ call.phase = "returned" => returned = call.text

\* transliterate("a", "fr") has returned "a" without a request.
C18_Witness ==
    /\ call.fn = "transliterate" /\ call.phase = "returned"
    /\ call.text = <<"a">> /\ call.languageCode = "fr"
    /\ call.requests = 0
    /\ returned = <<"a">>

\* C19: when the fetch throws, answers with a status that is not OK, or
\* answers without a usable candidate, transliterate still returns, and
\* returns the text it was called with.
C19_FailureReturnsText ==
    (/\ call.fn = "transliterate" /\ call.phase = "returned"
     /\ call.requests = 1
     /\ IsFailure(call.response)) =>
      returned = call.text

\* transliterate("ab", "hi") has returned "ab" after the fetch threw.
C19_Witness ==
    /\ call.fn = "transliterate" /\ call.phase = "returned"
    /\ call.requests = 1
    /\ call.response.kind = "throw"
    /\ call.text = <<"a", "b">>
    /\ returned = <<"a", "b">>

\* The text holds no character that extractSpecialCharacters takes out.
NoSpecialCharacters(text) == \A i \in DOMAIN text : ~IsSpecial(text[i])

\* C20: when the response holds several segments, each with a usable first
\* candidate, and the text holds no special character, transliterate returns
\* the first candidates of all segments joined in response order.
C20_AllSegmentsJoined ==
    (/\ call.fn = "transliterate" /\ call.phase = "returned"
     /\ call.requests = 1
     /\ call.response.kind = "ok"
     /\ Len(call.response.segments) >= 2
     /\ \A i \in DOMAIN call.response.segments : call.response.segments[i] # <<>>
     /\ NoSpecialCharacters(call.text)) =>
      returned = Concat(call.response.segments)

\* C21: for a text made of one Latin word and one special character behind
\* it, and a response of one segment with a usable candidate S, transliterate
\* (the one with extractSpecialCharacters / reinsertSpecialCharacters)
\* returns S followed by that character.
C21_TrailingSpecialReinserted ==
    (/\ call.fn = "transliterate" /\ call.phase = "returned"
     /\ call.file = "unnamed/part_001"
     /\ call.requests = 1
     /\ call.response.kind = "ok"
     /\ Len(call.response.segments) = 1
     /\ call.response.segments[1] # <<>>
     /\ Len(call.text) >= 2
     /\ AllLatin(SubSeq(call.text, 1, Len(call.text) - 1))
     /\ IsSpecial(call.text[Len(call.text)])) =>
      returned = call.response.segments[1] \o <<call.text[Len(call.text)]>>

\* transliterate("a!", "hi") has returned the segment followed by "!".
C21_Witness ==
    /\ call.fn = "transliterate" /\ call.phase = "returned"
    /\ call.file = "unnamed/part_001"
    /\ call.text = <<"a", "!">>
    /\ call.response = [kind |-> "ok", segments |-> << <<"dv">> >>]
    /\ returned = <<"dv", "!">>

\* ---------------------------------------------------------- dictation claims

\* The handler made the call.
Made(calls, name) == \E i \in DOMAIN calls : calls[i] = name

\* C22: from the switch to Type mode made while dictation was listening, and
\* for as long as the mode stays Type, the recognizer is ending or has ended:
\* it has been stopped and nothing starts it again.
C22_StoppedWhileTyping ==
    (currentMode = "type" /\ listeningOnEntry) =>
        recognition \in {"ending", "idle"}

\* C23: the editor holds exactly one typing keydown listener and one typing
\* input listener while typing mode is active and none while it is inactive,
\* whatever enable and disable calls came before.
C23_OneListenerWhenActive ==
    /\ isActive => /\ Cardinality(keydownListeners) = 1
                   /\ Cardinality(inputListeners) = 1
    /\ ~isActive => /\ keydownListeners = {}
                    /\ inputListeners = {}

\* Typing mode has been enabled and disabled again: the listeners it bound
\* are no longer registered.
C23_Witness ==
    /\ ~isActive
    /\ handleKeyDown # 0 /\ handleInput # 0
    /\ keydownListeners = {} /\ inputListeners = {}

\* C24: from a call of TypingMode.setLanguage, disable or enable until the
\* next input event, typingBuffer is empty: no token captured before the call
\* comes back.
C24_BufferStaysEmpty == ~inputSinceClear => typingBuffer = <<>>

\* C25: without the Web Speech API the typing path still works: a change of
\* the mode selector to 'type' is handled by switchMode, and in Type mode a
\* change of the typing-language selector is handled by TypingMode.setLanguage.
C25_TypingWithoutSpeech ==
    ~supported =>
        /\ ENABLED SwitchToType
        /\ currentMode = "type" => \A l \in Languages : ENABLED setLanguage(l)

\* The number of times the handler made the call.
Times(calls, name) == Cardinality({i \in DOMAIN calls : calls[i] = name})

C27_OnlyFinalIsClassified ==
    [][\A final \in Finals : \A interim \in Interims :
         (OnResult(final, interim) /\ ~SpeechResult(final, interim).isFinal) =>
            /\ ~Made(did', "process")
            /\ ~Made(did', "insertText")
            /\ ~Made(did', "executeCommand")
            /\ textContent' = textContent]_vars

\* An interim-only event has been handled while the editor held dictated
\* text.
C27_Witness ==
    /\ did = <<"showInterimPreview", "updateStatus:detecting">>
    /\ textContent # <<>>

\* ------------------------------------------------ lexicon and editor claims

\* process has returned a punctuation command with this text.
IsPunctuation(r, text) ==
    /\ r.hasCommand
    /\ r.commandType = "PUNCTUATION"
    /\ r.text = text

\* C28: process, called with the trigger T right after
\* addCustomCommand('punctuation', T, P), returns a punctuation command whose
\* text is P, whatever the letter case and the surrounding whitespace of T and
\* whether or not the lexicon held the trigger before.
C28_AddedTriggerIsRecognized ==
    (/\ call.fn = "addCustomCommand" /\ call.phase = "returned"
     /\ call.then.fn = "process"
     /\ call.commandType = "punctuation") =>
        IsPunctuation(result, call.action)

\* The category exists and holds the trigger, lower-cased, in the shipped
\* lexicon.
Present(commandType, trigger) ==
    /\ commandType \in DOMAIN initializeCommands
    /\ toLowerCase(trigger) \in KeysOf(initializeCommands[commandType])

\* The lexicon is the shipped one again, and so is the classification of
\* every utterance.
Restored(trigger) ==
    /\ commands = initializeCommands
    /\ \A u \in Utterances(initializeCommands) \cup Variants(trigger) :
          process(commands, u) = process(initializeCommands, u)

\* C29: removeCustomCommand for a trigger the lexicon does not hold, or for an
\* unknown category, leaves the lexicon as it is; and addCustomCommand for a
\* trigger the lexicon does not hold, followed by removeCustomCommand on the
\* same category with the trigger in any letter case, restores the lexicon
\* and the classification of every utterance.
C29_RemoveUndoesAdd ==
    /\ (/\ call.fn = "removeCustomCommand" /\ call.phase = "returned"
        /\ ~Present(call.commandType, call.trigger)) =>
           commands = initializeCommands
    /\ (/\ call.fn = "addCustomCommand" /\ call.phase = "returned"
        /\ call.then.fn = "removeCustomCommand"
        /\ ~Present(call.commandType, call.trigger)) =>
           Restored(call.trigger)

\* 'Dot' has been added to the punctuation lexicon and 'DOT' removed from it.
C29_Witness ==
    /\ call.fn = "addCustomCommand" /\ call.phase = "returned"
    /\ call.commandType = "punctuation"
    /\ call.trigger = <<"D", "o", "t">>
    /\ call.then = [fn |-> "removeCustomCommand", arg |-> <<"D", "O", "T">>]
    /\ commands = initializeCommands

\* The character belongs to the words of a sentence.
IsBody(c) == c \notin Terminators /\ ~IsSpace(c)

\* The greatest index of the set, 0 if it is empty.
Greatest(S) == IF S = {} THEN 0 ELSE CHOOSE i \in S : \A j \in S : j <= i

\* The index of the last terminator that the words of a later sentence
\* follow: where the sentences before the last one end (0: there is none).
PrecedingEnd(text) ==
    LET lastBody == Greatest({i \in DOMAIN text : IsBody(text[i])})
    IN Greatest({i \in DOMAIN text : i < lastBody /\ text[i] \in Terminators})

\* The text holds at least two sentences.
TwoSentences(text) ==
    \E i \in DOMAIN text : i < PrecedingEnd(text) /\ IsBody(text[i])

\* C30: deleteLastSentence on a text of at least two sentences leaves the
\* sentences before the last one, with their text and terminators as they
\* were, and nothing of the last sentence.
C30_LastSentenceDeleted ==
    (/\ call.fn = "deleteLastSentence" /\ call.phase = "returned"
     /\ TwoSentences(call.text)) =>
        TrimRight(returned) = SubSeq(call.text, 1, PrecedingEnd(call.text))

\* ------------------------------------------------- dictation claims, second part

\* C31: a language change made while the recognizer is listening (it stops
\* the recognizer and leaves a restart timer pending) leads to a recognizer
\* that listens again, whichever of the end event and the timer comes first.
C31_RestartAfterLanguageChange ==
    (restartTimers > 0) ~> (recognition = "running" /\ recognizerListening)

\* C32: one keydown of b with Ctrl or Cmd, the focus in the editor and the
\* mode Dictate, toggles bold once, all keydown handlers that receive the
\* event taken together; likewise i for italic and u for underline.
C32_ShortcutTogglesOnce ==
    [][\A e \in ShortcutEvents :
         (/\ ShortcutKeyDown(e)
          /\ currentMode = "dictate"
          /\ e.target = "editor"
          /\ e.key \in {"b", "i", "u"}
          /\ e.ctrlKey \/ e.metaKey) =>
            /\ Len(did') = 1
            /\ formatting' = Toggled(formatting, FormatOf(e.key))]_vars

\* C33: while the mode is Type the Start button is disabled.
C33_StartDisabledInTypeMode == currentMode = "type" => ~startEnabled

\* ----------------------------------- special-character claims

\* The special characters of s, in the order they stand in it.
SpecialsOf(s) == SelectSeq(s, IsSpecial)

\* The whitespace-delimited words of s.
WordsOf(s) == NonEmpty(SplitWs(s))

\* The direct call of transliterate of unnamed/part_001 has returned what the
\* engine's segments and the special characters of the text make.
ReinsertedCall ==
    /\ call.fn = "transliterate" /\ call.phase = "returned"
    /\ call.file = "unnamed/part_001"
    /\ call.requests = 1
    /\ call.response.kind = "ok"
    /\ NonEmpty(call.response.segments) # <<>>

\* The special character at text[i] stands directly behind a word.
FollowsWord(text, i) ==
    i > 1 /\ IsSpecial(text[i]) /\ IsWordChar(text[i - 1])

\* The k-th word of `out` is the k-th word of `words` with `char` directly
\* behind it.
PlacedAfter(out, words, k, char) ==
    /\ k \in 1..Len(words) /\ k \in 1..Len(WordsOf(out))
    /\ LET w == WordsOf(out)[k]
           n == Len(words[k])
       IN /\ Len(w) > n
          /\ SubSeq(w, 1, n) = words[k]
          /\ w[n + 1] = char

\* C34: when the transliterated string has as many whitespace-delimited words
\* as the source text, each special character that directly followed the k-th
\* source word stands directly behind the k-th transliterated word of the
\* result.
C34_SpecialAfterSameWord ==
    ReinsertedCall =>
        LET text == call.text
            words == WordsOf(Concat(NonEmpty(call.response.segments)))
        IN Len(words) = Len(WordsOf(text)) =>
              \A i \in DOMAIN text :
                 FollowsWord(text, i) =>
                    PlacedAfter(returned, words, WordsBefore(text, i - 1), text[i])

\* C35: the result of reinsertSpecialCharacters holds every extracted special
\* character exactly once and in the order of the source text.
C35_SpecialsKeptInOrder ==
    ReinsertedCall => SpecialsOf(returned) = SpecialsOf(call.text)

\* ------------------------------------------------- transliterateWord claims

\* The text ends with whitespace that follows a word holding a Latin letter.
EndsAfterLatinWord(text) ==
    /\ TrimRight(text) # text
    /\ WordsOf(text) # <<>>
    /\ HasLatin(Last(WordsOf(text)))

\* The text with the word before its trailing whitespace replaced by `by`.
WithLastWord(text, by) ==
    LET kept == TrimRight(text)
        word == Last(WordsOf(text))
    IN SubSeq(kept, 1, Len(kept) - Len(word)) \o by
       \o SubSeq(text, Len(kept) + 1, Len(text))

\* C36: transliterateWord(text, lang) with lang Hindi or Bengali: for a text
\* that ends with whitespace behind a word with Latin letters, one lookup is
\* issued and the result is flagged transliterated and differs from the text
\* in that word only; for a text that ends with a Latin letter no lookup is
\* issued and the result is the text, flagged not transliterated.
C36_WordBeforeWhitespace ==
    (/\ call.fn = "transliterateWord" /\ call.phase = "returned"
     /\ call.languageCode \in {"hi", "bn"}) =>
       /\ EndsAfterLatinWord(call.text) =>
            /\ call.requests = 1
            /\ call.transliterated
            /\ \E by \in Strings({"a", "!", "dv", "bg"}, MaxLen + 1) :
                  returned = WithLastWord(call.text, by)
       /\ EndsInLatin(call.text) =>
            /\ call.requests = 0
            /\ ~call.transliterated
            /\ returned = call.text

\* -------------------------------------------------------------- mode claims

\* C37: in every reachable state TypingMode.isActive is true exactly when
\* DictationApp.currentMode is 'type', and every step that changes
\* currentMode is a step of switchMode.
C37_ActiveIffTypeMode ==
    /\ [](isActive <=> currentMode = "type")
    /\ [][currentMode' # currentMode => SwitchToType \/ SwitchToDictate]_vars

\* Type mode with Hindi chosen, entered while the recognizer was listening,
\* after a word was dictated and a key typed.
C37_Witness ==
    /\ currentMode = "type" /\ isActive
    /\ currentLanguage = "hi"
    /\ listeningOnEntry
    /\ processed
    /\ Len(textContent) >= 2

\* A lookup issued by transliterate has not been answered yet.
LookupOutstanding == \E i \in DOMAIN pending : pending[i].phase = "fetching"

\* C38: Transliteration.isActive(), which returns isTransliterating, is true
\* in every state with a lookup outstanding, and false in every state in
\* which no call of transliterate is under way.
C38_ActiveWhileOutstanding ==
    /\ LookupOutstanding => isTransliterating
    /\ pending = <<>> => ~isTransliterating

\* C39: whenever DictationApp.isListening is true, SpeechRecognition.isListening
\* is true as well, so that a click on Stop reaches recognition.stop().
C39_AppListeningImpliesRecognizer == isListening => recognizerListening

\* C40: for a text that does not start with a space, what autoCapitalize
\* returns, put behind the preceding text, does not make two spaces meet at
\* the join.
C40_NoDoubleSpaceAtJoin ==
    (/\ call.fn = "autoCapitalize" /\ call.phase = "returned"
     /\ call.text # <<>> /\ Head(call.text) # " ") =>
       ~(/\ call.previousText # <<>>
         /\ Last(call.previousText) = " "
         /\ Head(returned) = " ")

====
